---- MODULE Spec2Model ----
(***************************************************************************)
(* State-machine model of the playback-synchronisation core of the study  *)
(* room: RoomVideoPlayer (remote snapshot handler, throttled time report, *)
(* play/pause and seek reports, control registration) together with the   *)
(* control object VideoPlayer registers; and of the shared whiteboard     *)
(* (Whiteboard: canvas set-up and repaint, local drawing handlers, batch  *)
(* ticker, broadcast handlers, history load and stroke persistence); and   *)
(* of the backend routes the two use: the stroke routes over the Stroke    *)
(* collection and the room routes over the rooms and room_playback tables. *)
(*                                                                         *)
(* Times are integers in milliseconds.  The source keeps playback         *)
(* positions in seconds (SEEK_THRESHOLD = 1.25) and wall-clock values in  *)
(* milliseconds, converting with "/ 1000"; the model keeps both in        *)
(* milliseconds, so 1.25 s is 1250 and the conversion is exact.           *)
(***************************************************************************)
EXTENDS Integers, Sequences, FiniteSets, TLC

VARIABLES
    now,            \* Date.now() of the participant's clock
    lastSentRef,    \* lastSentRef.current
    pendingSeekRef, \* pendingSeekRef.current: None or Some(t)
    controls,       \* playerControlRef.current is the VideoPlayer control object
    isPlayingRef,   \* isPlayingRef.current
    didInitRef,     \* didInitRef.current
    suppressEchoRef,\* suppressEchoRef.current
    timers,         \* due times of the pending setTimeout callbacks
    playerExists,   \* VideoPlayer has a player (playerRef.current / videoRef.current)
    playerTime,     \* current time of that player
    cmds,           \* control calls made by the last step, in call order
    sent,           \* sendLocalUpdate payloads issued by the last step, in call order
    ev,             \* what the last step was, and the values it read on entry
    prevPeriodicAt, \* time of the periodic write before the last one (None if none)
    lastPeriodicAt, \* time of the last periodic write (None if none)
    newest,         \* greatest updated_at of the snapshots received so far (None if none)
    hydrationTarget,\* position of the first snapshot, if it was handled before a player
                    \* existed and nothing has moved the player since (None otherwise)
    \* Whiteboard
    isDrawing,      \* isDrawing state
    currentColor,   \* currentColor state
    tickerColor,    \* currentColor seen by the sendBatchedPoints the ticker was started with
    contextRef,     \* contextRef.current: strokeStyle and current path of the 2D context
    canvas,         \* bitmap of the canvas: the painted segments and their colors
    pointsBuffer,   \* pointsBuffer.current
    batchTimerRef,  \* batchTimerRef.current holds a running interval
    currentPathRef, \* currentPathRef.current
    strokesStoreRef,\* strokesStoreRef.current
    joined,         \* progress of the subscribe callback
    durable,        \* stroke records held by the backend for the room, in creation order
    posts,          \* number of POST /strokes requests made by this participant
    inflight,       \* bodies of the POSTs whose stopDrawing call awaits the response
    bev,            \* what the last whiteboard step was and did
    strokePts,      \* points of the pointer events since the last pointer-down
    emitted,        \* points of the draw_batch events sent since the last pointer-down
    downs,          \* pointer-downs so far
    remotes,        \* remote draw_batch events delivered so far
    batches,        \* point lists of the draw_batch events sent since the last pointer-down
    clearing,       \* number of clearCanvas calls awaiting the response of their DELETE
    roomId,         \* roomId prop
    replays,        \* repaintAll() calls made on a cleared canvas so far
    intervals,      \* setInterval timers started by startDrawing and not cleared
    \* Backend
    strokesDb,      \* documents of the Stroke collection, in insertion order
    serverNow,      \* Date.now() of the server
    appended,       \* per room, the strokes stored since the room's last delete-all
    roomsDb,        \* rows of the rooms table, in insertion order
    playbackDb,     \* rows of the room_playback table
    bk              \* what the last backend request was and what it answered

playerVars == <<now, lastSentRef, pendingSeekRef, controls, isPlayingRef, didInitRef,
                suppressEchoRef, timers, playerExists, playerTime, cmds, sent, ev,
                prevPeriodicAt, lastPeriodicAt, newest, hydrationTarget>>

boardVars == <<isDrawing, currentColor, tickerColor, contextRef, canvas, pointsBuffer,
               batchTimerRef, currentPathRef, strokesStoreRef, joined, durable, posts,
               inflight, bev, strokePts, emitted, downs, remotes, batches, clearing,
               roomId, replays, intervals>>

backendVars == <<strokesDb, serverNow, appended, roomsDb, playbackDb, bk>>

vars == <<playerVars, boardVars, backendVars>>

----------------------------------------------------------------------------
(* Program constants *)

SEEK_THRESHOLD == 1250

UPDATE_THROTTLE_MS == 1500

HYDRATE_GUARD_MS == 250

SEEK_GUARD_MS == 200

(* Bounds of the model *)

\* Clock value at mount.  Date.now() is far above UPDATE_THROTTLE_MS, so the
\* first time report after mount always passes the throttle (lastSentRef = 0).
StartNow == 10000

\* The clock runs from StartNow to StartNow + Horizon.
Horizon == 1500

\* Steps by which the clock advances between two events.
Deltas == {500, 1000}

\* playback_time values of remote snapshots.
PlaybackTimes == {0, 100000}

\* Age (now - updated_at) of a snapshot when it is delivered.
Ages == {0, 3000}

\* Times passed by VideoPlayer to the local callbacks.
LocalTimes == {1250, 101200}

\* Positions the parent asks for through the seekToTime prop
SeekToTimes == {5000}

\* Pointer-downs of one run of the drawing handlers alone.
MaxStrokes == 2

\* Pointer-downs of one run of the whole whiteboard.
MaxBoardStrokes == 1

\* Points of one stroke: the start point and the moves after it.
MaxPoints == 2

\* Remote draw_batch events delivered in one run.
MaxRemote == 1

\* POST /strokes requests of one run.
MaxPosts == 2

\* Stroke records other participants persist in one run.
MaxStored == 1

\* clearCanvas calls awaiting their response at one time.
MaxClears == 1

\* Rooms the whiteboard visits in one run.
MaxRooms == 2

\* Documents in the Stroke collection at one time.
MaxDocs == 3

\* Milliseconds the server clock advances in one run.
MaxServerTime == 2

\* Rows in the rooms table.
MaxRoomRows == 2

\* Entries of a stroke list that is replayed.
MaxListed == 2

\* Replays of one stroke list.
MaxReplays == 2

\* Points of a draw_batch payload whose points are of any type.
MaxBatchPoints == 3

\* Pointer positions on the canvas (offsetX, offsetY taken together).
Positions == {1, 2}

\* Stroke colors; the first is the initial value of the currentColor state.
InitialColor == "#3ecf8e"

\* Color picked by the other participants
RemoteColor == "#f43f5e"

Colors == {InitialColor, RemoteColor}

\* userId.current of this participant and the id of another one.
LocalUser == "local"

UserIds == {LocalUser, "remote"}

----------------------------------------------------------------------------
(* Nullable values: None is null/undefined, Some(x) a value. *)

None == <<>>

Some(x) == <<x>>

Abs(x) == IF x < 0 THEN -x ELSE x

\* A row delivered to the remote update handler; NullRow is a null/undefined row.
NullRow == [isNull |-> TRUE]

Rows == [playback_time : {None} \cup {Some(t) : t \in PlaybackTimes},
         is_playing : BOOLEAN,
         updated_at : {None} \cup {Some(now - a) : a \in Ages}]

\* Control calls
SeekTo(t) == [call |-> "seekTo", t |-> t, play |-> FALSE]

SetPlaying(b) == [call |-> "setPlaying", t |-> 0, play |-> b]

\* Number(x) || 0
NumberOr0(x) == IF x = None THEN 0 ELSE x[1]

\* VideoPlayer controls.getCurrentTime
GetCurrentTime == IF playerExists THEN playerTime ELSE 0

\* Position of the player after the control calls cs: controls.seekTo moves the
\* player if there is one, controls.setPlaying leaves the position alone.
RECURSIVE PlayerAfter(_, _)
PlayerAfter(t, cs) ==
    IF cs = <<>> THEN t
    ELSE PlayerAfter(IF Head(cs).call = "seekTo" /\ playerExists THEN Head(cs).t ELSE t,
                     Tail(cs))

\* Record of a step: the operation, the branch it took, its input (row, arg)
\* and, for a snapshot, the player's current time when the handler was entered.
Event(op, branch, row, arg) ==
    [op |-> op, branch |-> branch, row |-> row, arg |-> arg,
     local |-> IF op = "remote" /\ row # NullRow THEN GetCurrentTime ELSE 0]

----------------------------------------------------------------------------
(* The remote update handler passed to useRoomPlayback *)

\* initialTime of the hydration branch
InitialTime(row) == NumberOr0(row.playback_time)

\* elapsed time added to a playing snapshot: now - updated_at, or 0 when the
\* row has no updated_at (updatedAtMs is then Date.now())
Elapsed(row, nowv) == IF row.updated_at = None THEN 0 ELSE nowv - row.updated_at[1]

\* Mutant of ExpectedTime: the elapsed time is added to a paused snapshot too
ExpectedTimeIgnoresPause(row, nowv) == NumberOr0(row.playback_time) + Elapsed(row, nowv)

\* expectedTime of the reconciliation branch
ExpectedTime(row, nowv) ==
    NumberOr0(row.playback_time) + (IF row.is_playing THEN Elapsed(row, nowv) ELSE 0)

\* Mutant of DriftExceeds: the comparison includes the threshold
DriftExceedsInclusive(localTime, expected) == Abs(localTime - expected) >= SEEK_THRESHOLD

\* diff > SEEK_THRESHOLD
DriftExceeds(localTime, expected) == Abs(localTime - expected) > SEEK_THRESHOLD

\* Mutant of HydrateCommands: the play state of the snapshot is applied
HydrateCommandsFollowRow(row) == <<SeekTo(InitialTime(row)), SetPlaying(row.is_playing)>>

\* Control calls of the hydration branch when seekTo is a function
HydrateCommands(row) == <<SeekTo(InitialTime(row)), SetPlaying(FALSE)>>

\* Mutant of ReconcileCommands: the play state is applied only when no seek is made
ReconcileCommandsSeekOnly(row, localTime, expected) ==
    IF DriftExceeds(localTime, expected) THEN <<SeekTo(expected)>>
    ELSE <<SetPlaying(row.is_playing)>>

\* Mutant of ReconcileCommands: the play state is applied before the seek
ReconcileCommandsPlayFirst(row, localTime, expected) ==
    <<SetPlaying(row.is_playing)>>
      \o (IF DriftExceeds(localTime, expected) THEN <<SeekTo(expected)>> ELSE <<>>)

\* Control calls of the reconciliation branch when the controls are registered
ReconcileCommands(row, localTime, expected) ==
    (IF DriftExceeds(localTime, expected) THEN <<SeekTo(expected)>> ELSE <<>>)
      \o <<SetPlaying(row.is_playing)>>

\* The greatest updated_at among the snapshots received
Newer(old, row) ==
    IF row.updated_at = None THEN old
    ELSE IF old = None THEN row.updated_at
    ELSE IF row.updated_at[1] > old[1] THEN row.updated_at ELSE old

\* Mutant of RemoteNull: a missing row counts as the first snapshot
RemoteNullHydrates ==
    /\ ev' = Event("remote", "null", NullRow, 0)
    /\ cmds' = <<>>
    /\ sent' = <<>>
    /\ didInitRef' = TRUE
    /\ UNCHANGED <<now, lastSentRef, pendingSeekRef, controls, isPlayingRef,
                   suppressEchoRef, timers, playerExists, playerTime,
                   prevPeriodicAt, lastPeriodicAt, newest, hydrationTarget>>

\* if (!row) return;
RemoteNull ==
    /\ ev' = Event("remote", "null", NullRow, 0)
    /\ cmds' = <<>>
    /\ sent' = <<>>
    /\ UNCHANGED <<now, lastSentRef, pendingSeekRef, controls, isPlayingRef, didInitRef,
                   suppressEchoRef, timers, playerExists, playerTime,
                   prevPeriodicAt, lastPeriodicAt, newest, hydrationTarget>>

\* Mutant of Hydrate: the hydration flag is not set
HydrateKeepsFlag(row) ==
    /\ ~didInitRef
    /\ UNCHANGED didInitRef
    /\ ev' = Event("remote", "hydrate", row, InitialTime(row))
    /\ IF controls
         THEN /\ suppressEchoRef' = TRUE
              /\ cmds' = <<SeekTo(InitialTime(row)), SetPlaying(FALSE)>>
              /\ isPlayingRef' = FALSE
              /\ timers' = timers \cup {now + HYDRATE_GUARD_MS}
              /\ UNCHANGED pendingSeekRef
         ELSE /\ pendingSeekRef' = Some(InitialTime(row))
              /\ cmds' = <<>>
              /\ UNCHANGED <<suppressEchoRef, isPlayingRef, timers>>
    /\ playerTime' = PlayerAfter(playerTime, cmds')
    /\ sent' = <<>>
    /\ newest' = Newer(newest, row)
    /\ hydrationTarget' = IF playerExists THEN None ELSE Some(InitialTime(row))
    /\ UNCHANGED <<now, lastSentRef, controls, playerExists, prevPeriodicAt, lastPeriodicAt>>

\* if (!didInitRef.current) { ... return; }
Hydrate(row) ==
    /\ ~didInitRef
    /\ didInitRef' = TRUE
    /\ ev' = Event("remote", "hydrate", row, InitialTime(row))
    /\ IF controls
         THEN /\ suppressEchoRef' = TRUE
              /\ cmds' = HydrateCommands(row)
              /\ isPlayingRef' = FALSE
              /\ timers' = timers \cup {now + HYDRATE_GUARD_MS}
              /\ UNCHANGED pendingSeekRef
         ELSE /\ pendingSeekRef' = Some(InitialTime(row))
              /\ cmds' = <<>>
              /\ UNCHANGED <<suppressEchoRef, isPlayingRef, timers>>
    /\ playerTime' = PlayerAfter(playerTime, cmds')
    /\ sent' = <<>>
    /\ newest' = Newer(newest, row)
    /\ hydrationTarget' = IF playerExists THEN None ELSE Some(InitialTime(row))
    /\ UNCHANGED <<now, lastSentRef, controls, playerExists, prevPeriodicAt, lastPeriodicAt>>

\* Mutant of Suppressed: the play state of a snapshot received during the
\* guard is still applied
SuppressedAppliesPlayState(row) ==
    /\ didInitRef
    /\ suppressEchoRef
    /\ ev' = Event("remote", "suppressed", row, ExpectedTime(row, now))
    /\ cmds' = IF controls THEN <<SetPlaying(row.is_playing)>> ELSE <<>>
    /\ isPlayingRef' = row.is_playing
    /\ sent' = <<>>
    /\ newest' = Newer(newest, row)
    /\ UNCHANGED <<now, lastSentRef, pendingSeekRef, controls, didInitRef,
                   suppressEchoRef, timers, playerExists, playerTime,
                   prevPeriodicAt, lastPeriodicAt, hydrationTarget>>

\* if (suppressEchoRef.current) return;
Suppressed(row) ==
    /\ didInitRef
    /\ suppressEchoRef
    /\ ev' = Event("remote", "suppressed", row, ExpectedTime(row, now))
    /\ cmds' = <<>>
    /\ sent' = <<>>
    /\ newest' = Newer(newest, row)
    /\ UNCHANGED <<now, lastSentRef, pendingSeekRef, controls, isPlayingRef, didInitRef,
                   suppressEchoRef, timers, playerExists, playerTime,
                   prevPeriodicAt, lastPeriodicAt, hydrationTarget>>

\* The rest of the handler: expected time, corrective seek, play state
Reconcile(row) ==
    /\ didInitRef
    /\ ~suppressEchoRef
    /\ LET expected == ExpectedTime(row, now) IN
        /\ ev' = Event("remote", "reconcile", row, expected)
        /\ IF controls
             THEN /\ cmds' = ReconcileCommands(row, GetCurrentTime, expected)
                  /\ IF DriftExceeds(GetCurrentTime, expected)
                       THEN /\ suppressEchoRef' = TRUE
                            /\ timers' = timers \cup {now + SEEK_GUARD_MS}
                       ELSE UNCHANGED <<suppressEchoRef, timers>>
                  /\ UNCHANGED pendingSeekRef
             ELSE /\ pendingSeekRef' = Some(expected)
                  /\ cmds' = <<>>
                  /\ UNCHANGED <<suppressEchoRef, timers>>
    /\ isPlayingRef' = row.is_playing
    /\ playerTime' = PlayerAfter(playerTime, cmds')
    /\ sent' = <<>>
    /\ newest' = Newer(newest, row)
    /\ hydrationTarget' = None
    /\ UNCHANGED <<now, lastSentRef, controls, didInitRef, playerExists,
                   prevPeriodicAt, lastPeriodicAt>>

\* The whole handler on a row
RemoteUpdate(row) ==
    IF row = NullRow THEN RemoteNull
    ELSE Hydrate(row) \/ Suppressed(row) \/ Reconcile(row)

\* Mutant of GuardTimeout: the timer fires without clearing the flag
GuardTimeoutKeepsFlag ==
    \E d \in timers :
        /\ now >= d
        /\ timers' = timers \ {d}
        /\ ev' = Event("timer", "fired", NullRow, d)
        /\ cmds' = <<>>
        /\ sent' = <<>>
        /\ UNCHANGED <<now, lastSentRef, pendingSeekRef, controls, isPlayingRef, didInitRef,
                       suppressEchoRef, playerExists, playerTime, prevPeriodicAt,
                       lastPeriodicAt, newest, hydrationTarget>>

\* setTimeout(() => { suppressEchoRef.current = false; }, ...)
GuardTimeout ==
    \E d \in timers :
        /\ now >= d
        /\ suppressEchoRef' = FALSE
        /\ timers' = timers \ {d}
        /\ ev' = Event("timer", "fired", NullRow, d)
        /\ cmds' = <<>>
        /\ sent' = <<>>
        /\ UNCHANGED <<now, lastSentRef, pendingSeekRef, controls, isPlayingRef, didInitRef,
                       playerExists, playerTime, prevPeriodicAt, lastPeriodicAt, newest, hydrationTarget>>

----------------------------------------------------------------------------
(* Outbound reports *)

\* A sendLocalUpdate call: which handler made it, the payload (is_playing,
\* playback_time, client_ts) and the value isPlayingRef.current had when the
\* call was made.
Update(kind, isPlaying, time, refAtSend) ==
    [kind |-> kind, is_playing |-> isPlaying, playback_time |-> time, client_ts |-> now,
     refAtSend |-> refAtSend]

\* Mutant of Throttled: the interval is taken in seconds
ThrottledInSeconds(nowv, last) == nowv - last < UPDATE_THROTTLE_MS \div 1000

\* if (now - lastSentRef.current < UPDATE_THROTTLE_MS) return;
Throttled(nowv, last) == nowv - last < UPDATE_THROTTLE_MS

\* Mutant of HandleLocalTimeUpdate: the report always says paused
HandleLocalTimeUpdateAsPaused(time) ==
    /\ IF Throttled(now, lastSentRef)
         THEN /\ ev' = Event("timeUpdate", "throttled", NullRow, time)
              /\ sent' = <<>>
              /\ UNCHANGED <<lastSentRef, prevPeriodicAt, lastPeriodicAt>>
         ELSE /\ ev' = Event("timeUpdate", "sent", NullRow, time)
              /\ lastSentRef' = now
              /\ sent' = <<Update("periodic", FALSE, time, isPlayingRef)>>
              /\ prevPeriodicAt' = lastPeriodicAt
              /\ lastPeriodicAt' = Some(now)
    /\ cmds' = <<>>
    /\ UNCHANGED <<now, pendingSeekRef, controls, isPlayingRef, didInitRef, suppressEchoRef,
                   timers, playerExists, playerTime, newest, hydrationTarget>>

\* handleLocalTimeUpdate(time)
HandleLocalTimeUpdate(time) ==
    /\ IF Throttled(now, lastSentRef)
         THEN /\ ev' = Event("timeUpdate", "throttled", NullRow, time)
              /\ sent' = <<>>
              /\ UNCHANGED <<lastSentRef, prevPeriodicAt, lastPeriodicAt>>
         ELSE /\ ev' = Event("timeUpdate", "sent", NullRow, time)
              /\ lastSentRef' = now
              /\ sent' = <<Update("periodic", isPlayingRef, time, isPlayingRef)>>
              /\ prevPeriodicAt' = lastPeriodicAt
              /\ lastPeriodicAt' = Some(now)
    /\ cmds' = <<>>
    /\ UNCHANGED <<now, pendingSeekRef, controls, isPlayingRef, didInitRef, suppressEchoRef,
                   timers, playerExists, playerTime, newest, hydrationTarget>>

\* Mutant of HandleLocalPlayPause: the report is throttled like a time report
HandleLocalPlayPauseThrottled(isPlaying, currentTime) ==
    /\ ev' = Event("playPause", IF isPlaying THEN "play" ELSE "pause", NullRow, currentTime)
    /\ isPlayingRef' = isPlaying
    /\ sent' = IF Throttled(now, lastSentRef) THEN <<>>
               ELSE <<Update("playPause", isPlaying, currentTime, isPlayingRef')>>
    /\ cmds' = <<>>
    /\ UNCHANGED <<now, lastSentRef, pendingSeekRef, controls, didInitRef, suppressEchoRef,
                   timers, playerExists, playerTime, prevPeriodicAt, lastPeriodicAt, newest, hydrationTarget>>

\* handleLocalPlayPause(isPlaying, currentTime)
HandleLocalPlayPause(isPlaying, currentTime) ==
    /\ ev' = Event("playPause", IF isPlaying THEN "play" ELSE "pause", NullRow, currentTime)
    /\ isPlayingRef' = isPlaying
    /\ sent' = <<Update("playPause", isPlaying, currentTime, isPlayingRef')>>
    /\ cmds' = <<>>
    /\ UNCHANGED <<now, lastSentRef, pendingSeekRef, controls, didInitRef, suppressEchoRef,
                   timers, playerExists, playerTime, prevPeriodicAt, lastPeriodicAt, newest, hydrationTarget>>

\* Mutant of HandleLocalSeek: the seek is reported as playing
HandleLocalSeekAsPlaying(seekTo) ==
    /\ ev' = Event("seek", "sent", NullRow, seekTo)
    /\ sent' = <<Update("seek", TRUE, seekTo, isPlayingRef)>>
    /\ cmds' = <<>>
    /\ UNCHANGED <<now, lastSentRef, pendingSeekRef, controls, isPlayingRef, didInitRef,
                   suppressEchoRef, timers, playerExists, prevPeriodicAt, lastPeriodicAt,
                   newest>>

\* handleLocalSeek(seekTo).  The handler does not touch the player; the caller
\* (UserSeek) says where the player is.
HandleLocalSeek(seekTo) ==
    /\ ev' = Event("seek", "sent", NullRow, seekTo)
    /\ sent' = <<Update("seek", isPlayingRef, seekTo, isPlayingRef)>>
    /\ cmds' = <<>>
    /\ UNCHANGED <<now, lastSentRef, pendingSeekRef, controls, isPlayingRef, didInitRef,
                   suppressEchoRef, timers, playerExists, prevPeriodicAt, lastPeriodicAt,
                   newest>>

\* Mutant of SendRejected: the rejected write is made again
SendRejectedRetries ==
    /\ sent # <<>>
    /\ ev' = Event("writeFailed", sent[1].kind, NullRow, sent[1].playback_time)
    /\ sent' = sent
    /\ cmds' = <<>>
    /\ UNCHANGED <<now, lastSentRef, pendingSeekRef, controls, isPlayingRef, didInitRef,
                   suppressEchoRef, timers, playerExists, playerTime,
                   prevPeriodicAt, lastPeriodicAt, newest, hydrationTarget>>

\* The promise of the sendLocalUpdate call of the last step rejects: the
\* handler's catch block logs the error (console.error) and the handler ends.
SendRejected ==
    /\ sent # <<>>
    /\ ev' = Event("writeFailed", sent[1].kind, NullRow, sent[1].playback_time)
    /\ sent' = <<>>
    /\ cmds' = <<>>
    /\ UNCHANGED <<now, lastSentRef, pendingSeekRef, controls, isPlayingRef, didInitRef,
                   suppressEchoRef, timers, playerExists, playerTime,
                   prevPeriodicAt, lastPeriodicAt, newest, hydrationTarget>>

\* VideoPlayer.handleProgressChange: the user drags the slider; the player is
\* moved and onLocalSeek(newTime) is called.
UserSeek(newTime) ==
    /\ playerExists
    /\ playerTime' = newTime
    /\ hydrationTarget' = None
    /\ HandleLocalSeek(newTime)

----------------------------------------------------------------------------
(* Player controls *)

\* setPlayerControls that issues the pending seek but leaves the slot filled
SetPlayerControlsKeepsSlot ==
    /\ controls' = TRUE
    /\ ev' = Event("register", "controls", NullRow, 0)
    /\ cmds' = IF pendingSeekRef # None THEN <<SeekTo(pendingSeekRef[1])>> ELSE <<>>
    /\ playerTime' = PlayerAfter(playerTime, cmds')
    /\ sent' = <<>>
    /\ UNCHANGED <<now, lastSentRef, pendingSeekRef, isPlayingRef, didInitRef, suppressEchoRef,
                   timers, playerExists, prevPeriodicAt, lastPeriodicAt, newest,
                   hydrationTarget>>

\* setPlayerControls(controls), called by VideoPlayer's registerControls effect
SetPlayerControls ==
    /\ controls' = TRUE
    /\ ev' = Event("register", "controls", NullRow, 0)
    /\ IF pendingSeekRef # None
         THEN /\ cmds' = <<SeekTo(pendingSeekRef[1])>>
              /\ pendingSeekRef' = None
         ELSE /\ cmds' = <<>>
              /\ UNCHANGED pendingSeekRef
    /\ playerTime' = PlayerAfter(playerTime, cmds')
    /\ sent' = <<>>
    /\ UNCHANGED <<now, lastSentRef, isPlayingRef, didInitRef, suppressEchoRef, timers,
                   playerExists, prevPeriodicAt, lastPeriodicAt, newest, hydrationTarget>>

\* The parent changes the seekToTime prop: VideoPlayer's effect seeks the player
\* itself if there is one, then RoomVideoPlayer's effect forwards the seek to the
\* controls, or stores it in the pending-seek slot when none are registered.
SeekToTimeChanged(seekToTime) ==
    /\ ev' = Event("externalSeek", IF controls THEN "forwarded" ELSE "stored", NullRow,
                   seekToTime)
    /\ IF controls
         THEN /\ cmds' = <<SeekTo(seekToTime)>>
              /\ UNCHANGED pendingSeekRef
         ELSE /\ cmds' = <<>>
              /\ pendingSeekRef' = Some(seekToTime)
    /\ playerTime' = IF playerExists THEN seekToTime ELSE playerTime
    /\ hydrationTarget' = None
    /\ sent' = <<>>
    /\ UNCHANGED <<now, lastSentRef, controls, isPlayingRef, didInitRef, suppressEchoRef,
                   timers, playerExists, prevPeriodicAt, lastPeriodicAt, newest>>

\* The <video> element is mounted, or the YouTube player is constructed
PlayerCreated ==
    /\ ~playerExists
    /\ playerExists' = TRUE
    /\ ev' = Event("player", "created", NullRow, 0)
    /\ cmds' = <<>>
    /\ sent' = <<>>
    /\ UNCHANGED <<now, lastSentRef, pendingSeekRef, controls, isPlayingRef, didInitRef,
                   suppressEchoRef, timers, playerTime, prevPeriodicAt, lastPeriodicAt,
                   newest, hydrationTarget>>

\* The clock advances between two events
Tick(d) ==
    /\ now + d <= StartNow + Horizon
    /\ now' = now + d
    /\ ev' = Event("tick", "tick", NullRow, d)
    /\ cmds' = <<>>
    /\ sent' = <<>>
    /\ UNCHANGED <<lastSentRef, pendingSeekRef, controls, isPlayingRef, didInitRef,
                   suppressEchoRef, timers, playerExists, playerTime,
                   prevPeriodicAt, lastPeriodicAt, newest, hydrationTarget>>

\* The clock advances between two events; it keeps advancing past the horizon
\* of the run while a setTimeout callback is waiting for its delay to pass
TimePasses(d) ==
    /\ \/ now + d <= StartNow + Horizon
       \/ \E t \in timers : now < t
    /\ now' = now + d
    /\ ev' = Event("tick", "tick", NullRow, d)
    /\ cmds' = <<>>
    /\ sent' = <<>>
    /\ UNCHANGED <<lastSentRef, pendingSeekRef, controls, isPlayingRef, didInitRef,
                   suppressEchoRef, timers, playerExists, playerTime,
                   prevPeriodicAt, lastPeriodicAt, newest, hydrationTarget>>

----------------------------------------------------------------------------
(* Whiteboard: the canvas and its 2D context *)

\* A point of a stroke: { type, x, y }, the position standing for (x, y)
Point(type, x) == [type |-> type, x |-> x]

\* The line between two positions as it shows on the bitmap (a dot when they
\* are the same position)
Seg(a, b) == {a, b}

\* The bitmap after painting the lines segs in color: a line painted again
\* takes the new color
Paint(bitmap, segs, color) ==
    {e \in bitmap : e[1] \notin segs} \cup {<<sg, color>> : sg \in segs}

\* A 2D context after canvas.width is set and setupCanvas has re-applied the
\* stroke defaults: empty path, strokeStyle as given
FreshContext(style) == [strokeStyle |-> style, path |-> {}, pen |-> None, sub |-> None]

\* context.beginPath()
BeginPath(c) == [c EXCEPT !.path = {}, !.pen = None, !.sub = None]

\* context.moveTo(x, y)
MoveTo(c, x) == [c EXCEPT !.pen = Some(x), !.sub = Some(x)]

\* context.lineTo(x, y): with no current point it only sets one
LineTo(c, x) ==
    IF c.pen = None THEN MoveTo(c, x)
    ELSE [c EXCEPT !.path = @ \cup {Seg(c.pen[1], x)}, !.pen = Some(x)]

\* context.closePath(): a line back to the first point of the subpath
ClosePath(c) ==
    IF c.pen = None THEN c
    ELSE [c EXCEPT !.path = IF c.pen = c.sub THEN @ ELSE @ \cup {Seg(c.pen[1], c.sub[1])},
                   !.pen = c.sub]

\* context.stroke(): every line of the current path is painted in strokeStyle
Stroke(bitmap, c) == Paint(bitmap, c.path, c.strokeStyle)

\* Mutant of DrawPoints: a later 'start' point is joined to the point before it
RECURSIVE DrawPointsJoinsStart(_, _, _)
DrawPointsJoinsStart(g, points, isNewPath) ==
    IF points = <<>> THEN g
    ELSE LET point == Head(points)
         IN  IF isNewPath
               THEN DrawPointsJoinsStart(
                        [g EXCEPT !.context = MoveTo(BeginPath(g.context), point.x)],
                        Tail(points), FALSE)
             ELSE LET c == LineTo(g.context, point.x)
                  IN  DrawPointsJoinsStart([canvas |-> Stroke(g.canvas, c), context |-> c],
                                           Tail(points), FALSE)

\* The loop of drawStroke over points, on g = [canvas, context]
RECURSIVE DrawPoints(_, _, _)
DrawPoints(g, points, isNewPath) ==
    IF points = <<>> THEN g
    ELSE LET point == Head(points)
         IN  IF point.type = "start" \/ isNewPath
               THEN DrawPoints([g EXCEPT !.context = MoveTo(BeginPath(g.context), point.x)],
                               Tail(points), FALSE)
             ELSE IF point.type = "move"
               THEN LET c == LineTo(g.context, point.x)
                    IN  DrawPoints([canvas |-> Stroke(g.canvas, c), context |-> c],
                                   Tail(points), FALSE)
             ELSE DrawPoints(g, Tail(points), FALSE)

\* Mutant of DrawStroke: strokeStyle is left at the stroke's color
DrawStrokeKeepsColor(g, points, color) ==
    IF points = <<>> THEN g
    ELSE DrawPoints([g EXCEPT !.context.strokeStyle = color], points, TRUE)

\* Mutant of DrawStroke: the first point does not open a new path
DrawStrokeKeepsPath(g, points, color) ==
    IF points = <<>> THEN g
    ELSE LET saved == g.context.strokeStyle
             drawn == DrawPoints([g EXCEPT !.context.strokeStyle = color], points, FALSE)
         IN  [drawn EXCEPT !.context.strokeStyle = saved]

\* drawStroke(points, color) on g = [canvas, context]
DrawStroke(g, points, color) ==
    IF points = <<>> THEN g
    ELSE LET saved == g.context.strokeStyle
             drawn == DrawPoints([g EXCEPT !.context.strokeStyle = color], points, TRUE)
         IN  [drawn EXCEPT !.context.strokeStyle = saved]

\* drawStroke over a list of { points, color } entries, in list order
RECURSIVE DrawAll(_, _)
DrawAll(g, strokes) ==
    IF strokes = <<>> THEN g
    ELSE DrawAll(DrawStroke(g, Head(strokes).points, Head(strokes).color), Tail(strokes))

\* repaintAll() on g
RepaintAll(g) == DrawAll(g, strokesStoreRef)

\* What the last whiteboard step was: the handler, whether it took effect
\* (rendered, sent or persisted something), and the draw_batch it sent or
\* received
BoardEvent(op, applied, batch) == [op |-> op, applied |-> applied, batch |-> batch]

----------------------------------------------------------------------------
(* Whiteboard: local drawing *)

\* Mutant of SendBatchedPoints: the buffer is not emptied after the send
SendBatchedPointsKeepsBuffer(color) ==
    [batch |-> IF pointsBuffer = <<>> THEN None
               ELSE Some([userId |-> LocalUser, points |-> pointsBuffer, color |-> color]),
     buffer |-> pointsBuffer]

\* sendBatchedPoints(), of a render whose currentColor is color: the draw_batch
\* it sends (None when the buffer is empty) and the buffer it leaves
SendBatchedPoints(color) ==
    [batch |-> IF pointsBuffer = <<>> THEN None
               ELSE Some([userId |-> LocalUser, points |-> pointsBuffer, color |-> color]),
     buffer |-> <<>>]

\* Points of a sent draw_batch (none when nothing was sent)
PointsOf(batch) == IF batch = None THEN <<>> ELSE batch[1].points

\* Mutant of StartDrawing: the batch ticker is not started
StartDrawingNoTicker(x) ==
    /\ ~isDrawing
    /\ contextRef' = MoveTo(BeginPath([contextRef EXCEPT !.strokeStyle = currentColor]), x)
    /\ isDrawing' = TRUE
    /\ currentPathRef' = <<Point("start", x)>>
    /\ pointsBuffer' = Append(pointsBuffer, Point("start", x))
    /\ strokePts' = <<Point("start", x)>>
    /\ emitted' = <<>>
    /\ batches' = <<>>
    /\ downs' = downs + 1
    /\ bev' = BoardEvent("start", TRUE, None)
    /\ UNCHANGED <<currentColor, tickerColor, batchTimerRef, intervals, canvas, strokesStoreRef, joined,
                   durable, posts, inflight, remotes, clearing,
                   roomId, replays>>

\* Mutant of StartDrawing: an interval is started at every pointer-down
StartDrawingSecondTicker(x) ==
    /\ contextRef' = MoveTo(BeginPath([contextRef EXCEPT !.strokeStyle = currentColor]), x)
    /\ isDrawing' = TRUE
    /\ currentPathRef' = <<Point("start", x)>>
    /\ pointsBuffer' = Append(pointsBuffer, Point("start", x))
    /\ batchTimerRef' = TRUE
    /\ intervals' = intervals + 1
    /\ tickerColor' = IF batchTimerRef THEN tickerColor ELSE currentColor
    /\ strokePts' = <<Point("start", x)>>
    /\ emitted' = <<>>
    /\ batches' = <<>>
    /\ downs' = downs + 1
    /\ bev' = BoardEvent("start", TRUE, None)
    /\ UNCHANGED <<currentColor, canvas, strokesStoreRef, joined, durable, posts, inflight,
                   remotes, clearing,
                   roomId, replays>>

\* startDrawing (onMouseDown) at position x.  The handler does not read
\* isDrawing; the steps of a one-button pointer call it only after the up or
\* leave that ended the stroke before.  The legacy per-point 'draw' broadcast
\* it also sends changes no state here.
StartDrawing(x) ==
    /\ contextRef' = MoveTo(BeginPath([contextRef EXCEPT !.strokeStyle = currentColor]), x)
    /\ isDrawing' = TRUE
    /\ currentPathRef' = <<Point("start", x)>>
    /\ pointsBuffer' = Append(pointsBuffer, Point("start", x))
    /\ batchTimerRef' = TRUE
    /\ intervals' = IF batchTimerRef THEN intervals ELSE intervals + 1
    /\ tickerColor' = IF batchTimerRef THEN tickerColor ELSE currentColor
    /\ strokePts' = <<Point("start", x)>>
    /\ emitted' = <<>>
    /\ batches' = <<>>
    /\ downs' = downs + 1
    /\ bev' = BoardEvent("start", TRUE, None)
    /\ UNCHANGED <<currentColor, canvas, strokesStoreRef, joined, durable, posts, inflight,
                   remotes, clearing,
                   roomId, replays>>

\* draw (onMouseMove) at position x; it returns at once when isDrawing is false
Draw(x) ==
    /\ isDrawing
    /\ Len(strokePts) < MaxPoints
    /\ contextRef' = LineTo(contextRef, x)
    /\ canvas' = Stroke(canvas, contextRef')
    /\ pointsBuffer' = Append(pointsBuffer, Point("move", x))
    /\ currentPathRef' = Append(currentPathRef, Point("move", x))
    /\ strokePts' = Append(strokePts, Point("move", x))
    /\ bev' = BoardEvent("draw", TRUE, None)
    /\ UNCHANGED <<isDrawing, currentColor, tickerColor, batchTimerRef, intervals, strokesStoreRef,
                   joined, durable, posts, inflight, emitted, batches, downs, remotes, clearing,
                   roomId, replays>>

\* One firing of the interval started by startDrawing
BatchTick ==
    /\ intervals > 0
    /\ LET r == SendBatchedPoints(tickerColor)
       IN  /\ pointsBuffer' = r.buffer
           /\ emitted' = emitted \o PointsOf(r.batch)
           /\ batches' = IF r.batch = None THEN batches ELSE Append(batches, PointsOf(r.batch))
           /\ bev' = BoardEvent("tick", r.batch # None, r.batch)
    /\ UNCHANGED <<isDrawing, currentColor, tickerColor, contextRef, canvas, batchTimerRef, intervals,
                   currentPathRef, strokesStoreRef, joined, durable, posts, inflight,
                   strokePts, downs, remotes, clearing,
                   roomId, replays>>

\* stopDrawing (onMouseUp, onMouseLeave) up to its await: the remainder is
\* flushed, the ticker cleared, and a non-empty current path is appended to the
\* in-memory list and sent in a POST whose response is awaited
StopDrawing ==
    /\ currentPathRef # <<>> => posts < MaxPosts
    /\ contextRef' = ClosePath(contextRef)
    /\ isDrawing' = FALSE
    /\ LET r == SendBatchedPoints(currentColor)
       IN  /\ pointsBuffer' = r.buffer
           /\ emitted' = emitted \o PointsOf(r.batch)
           /\ batches' = IF r.batch = None THEN batches ELSE Append(batches, PointsOf(r.batch))
           /\ bev' = BoardEvent("stop", currentPathRef # <<>>, r.batch)
    /\ batchTimerRef' = FALSE
    /\ intervals' = IF batchTimerRef THEN intervals - 1 ELSE intervals
    /\ IF currentPathRef # <<>>
         THEN LET body == [strokes |-> currentPathRef, color |-> currentColor]
              IN  /\ strokesStoreRef' =
                        Append(strokesStoreRef,
                               [points |-> currentPathRef, color |-> currentColor])
                  /\ posts' = posts + 1
                  /\ inflight' = Append(inflight, body)
                  /\ UNCHANGED currentPathRef
         ELSE /\ currentPathRef' = <<>>
              /\ UNCHANGED <<strokesStoreRef, posts, inflight>>
    /\ UNCHANGED <<currentColor, tickerColor, canvas, joined, durable, strokePts, downs,
                   remotes, clearing,
                   roomId, replays>>

\* Mutant of PostDone: a failed POST takes the stroke out of the list again
PostDoneRollsBack(i, ok) ==
    /\ i \in 1..Len(inflight)
    /\ durable' = IF ok THEN Append(durable, inflight[i]) ELSE durable
    /\ inflight' = SubSeq(inflight, 1, i - 1) \o SubSeq(inflight, i + 1, Len(inflight))
    /\ currentPathRef' = <<>>
    /\ strokesStoreRef' =
          IF ok THEN strokesStoreRef
          ELSE SelectSeq(strokesStoreRef,
                         LAMBDA e : e # [points |-> inflight[i].strokes,
                                         color |-> inflight[i].color])
    /\ bev' = BoardEvent("postDone", ok, None)
    /\ UNCHANGED <<isDrawing, currentColor, tickerColor, contextRef, canvas, pointsBuffer,
                   batchTimerRef, intervals, joined, posts, strokePts, emitted, batches, downs,
                   remotes, clearing,
                   roomId, replays>>

\* The POST of the i-th waiting stopDrawing is answered (ok: the record was
\* stored; otherwise the failure is logged) and the call resumes: the current
\* path is reset
PostDone(i, ok) ==
    /\ i \in 1..Len(inflight)
    /\ durable' = IF ok THEN Append(durable, inflight[i]) ELSE durable
    /\ inflight' = SubSeq(inflight, 1, i - 1) \o SubSeq(inflight, i + 1, Len(inflight))
    /\ currentPathRef' = <<>>
    /\ bev' = BoardEvent("postDone", ok, None)
    /\ UNCHANGED <<isDrawing, currentColor, tickerColor, contextRef, canvas, pointsBuffer,
                   batchTimerRef, intervals, strokesStoreRef, joined, posts, strokePts, emitted, batches, downs,
                   remotes, clearing,
                   roomId, replays>>

----------------------------------------------------------------------------
(* Whiteboard: channel handlers, history load, resize *)

\* Points of the draw_batch events other senders' tickers produce: a batch
\* opening a stroke and a batch continuing one
RemoteBatches ==
    {<<Point("start", 1), Point("move", 2)>>, <<Point("move", 2), Point("move", 1)>>}

\* Stroke records other participants persist
StoredStrokes == {[strokes |-> <<Point("start", 2), Point("move", 1)>>, color |-> RemoteColor]}

\* Mutant of OnDrawBatch: the sender id is not compared with the local one
OnDrawBatchRendersOwn(uid, points, color) ==
    /\ joined # "joining"
    /\ remotes < MaxRemote
    /\ remotes' = remotes + 1
    /\ LET g == DrawStroke([canvas |-> canvas, context |-> contextRef], points, color)
       IN  /\ canvas' = g.canvas
           /\ contextRef' = g.context
    /\ strokesStoreRef' = Append(strokesStoreRef, [points |-> points, color |-> color])
    /\ bev' = BoardEvent("draw_batch", uid # LocalUser,
                          Some([userId |-> uid, points |-> points, color |-> color]))
    /\ UNCHANGED <<isDrawing, currentColor, tickerColor, pointsBuffer, batchTimerRef, intervals,
                   currentPathRef, joined, durable, posts, inflight, strokePts, emitted, batches,
                   downs, clearing,
                   roomId, replays>>

\* The 'draw_batch' broadcast handler; broadcasts are delivered once the
\* channel is joined.
OnDrawBatch(uid, points, color) ==
    /\ joined # "joining"
    /\ remotes < MaxRemote
    /\ remotes' = remotes + 1
    /\ IF uid = LocalUser
         THEN UNCHANGED <<canvas, contextRef, strokesStoreRef>>
         ELSE /\ LET g == DrawStroke([canvas |-> canvas, context |-> contextRef], points, color)
                 IN  /\ canvas' = g.canvas
                     /\ contextRef' = g.context
              /\ strokesStoreRef' = Append(strokesStoreRef, [points |-> points, color |-> color])
    /\ bev' = BoardEvent("draw_batch", uid # LocalUser,
                          Some([userId |-> uid, points |-> points, color |-> color]))
    /\ UNCHANGED <<isDrawing, currentColor, tickerColor, pointsBuffer, batchTimerRef, intervals,
                   currentPathRef, joined, durable, posts, inflight, strokePts, emitted, batches,
                   downs, clearing,
                   roomId, replays>>

\* Another participant's stroke is stored by the backend before this
\* participant's history request is answered
RemotePersist(stroke) ==
    /\ joined \in {"joining", "fetching"}
    /\ Len(durable) < MaxStored
    /\ durable' = Append(durable, stroke)
    /\ bev' = BoardEvent("remotePersist", TRUE, None)
    /\ UNCHANGED <<isDrawing, currentColor, tickerColor, contextRef, canvas, pointsBuffer,
                   batchTimerRef, intervals, currentPathRef, strokesStoreRef, joined, posts, inflight,
                   strokePts, emitted, batches, downs, remotes, clearing,
                   roomId, replays>>

\* The subscribe callback is called with SUBSCRIBED: it awaits channel.track,
\* then requests the stored strokes and awaits the response
Subscribed ==
    /\ joined = "joining"
    /\ joined' = "fetching"
    /\ bev' = BoardEvent("subscribed", TRUE, None)
    /\ UNCHANGED <<isDrawing, currentColor, tickerColor, contextRef, canvas, pointsBuffer,
                   batchTimerRef, intervals, currentPathRef, strokesStoreRef, durable, posts, inflight,
                   strokePts, emitted, batches, downs, remotes, clearing,
                   roomId, replays>>

\* The entries the history load makes of the stored records
RECURSIVE Entries(_)
Entries(records) ==
    IF records = <<>> THEN <<>>
    ELSE <<[points |-> Head(records).strokes, color |-> Head(records).color]>>
         \o Entries(Tail(records))

\* The stored strokes arrive: each is drawn and appended, and currentColor
\* becomes the color of the last one (the color effect then sets strokeStyle)
HistoryLoaded ==
    /\ joined = "fetching"
    /\ joined' = "loaded"
    /\ LET data == Entries(durable)
           g == DrawAll([canvas |-> canvas, context |-> contextRef], data)
           color == IF data = <<>> THEN currentColor ELSE data[Len(data)].color
       IN  /\ canvas' = g.canvas
           /\ contextRef' = IF color = currentColor THEN g.context
                            ELSE [g.context EXCEPT !.strokeStyle = color]
           /\ strokesStoreRef' = strokesStoreRef \o data
           /\ currentColor' = color
    /\ bev' = BoardEvent("history", TRUE, None)
    /\ UNCHANGED <<isDrawing, tickerColor, pointsBuffer, batchTimerRef, intervals, currentPathRef,
                   durable, posts, inflight, strokePts, emitted, batches, downs, remotes, clearing,
                   roomId, replays>>

\* clearCanvas up to its await: the canvas is wiped and the DELETE of the
\* room's strokes is requested
ClearCanvas ==
    /\ clearing < MaxClears
    /\ canvas' = {}
    /\ clearing' = clearing + 1
    /\ bev' = BoardEvent("clear", TRUE, None)
    /\ UNCHANGED <<isDrawing, currentColor, tickerColor, contextRef, pointsBuffer,
                   batchTimerRef, intervals, currentPathRef, strokesStoreRef, joined, durable, posts,
                   inflight, strokePts, emitted, batches, downs, remotes, roomId, replays>>

\* Mutant of ClearDone: the clear event is not sent when the DELETE failed
ClearDoneSilentOnFailure(ok) ==
    /\ clearing > 0
    /\ clearing' = clearing - 1
    /\ durable' = IF ok THEN <<>> ELSE durable
    /\ bev' = BoardEvent("clearDone", ok,
                          IF ok THEN Some([userId |-> LocalUser, event |-> "clear"]) ELSE None)
    /\ UNCHANGED <<isDrawing, currentColor, tickerColor, contextRef, canvas, pointsBuffer,
                   batchTimerRef, intervals, currentPathRef, strokesStoreRef, joined, posts, inflight,
                   strokePts, emitted, batches, downs, remotes, roomId, replays>>

\* The DELETE of a waiting clearCanvas is answered (ok: the room's records
\* were deleted; otherwise the failure is logged) and the call resumes: the
\* 'clear' event is broadcast
ClearDone(ok) ==
    /\ clearing > 0
    /\ clearing' = clearing - 1
    /\ durable' = IF ok THEN <<>> ELSE durable
    /\ bev' = BoardEvent("clearDone", ok, Some([userId |-> LocalUser, event |-> "clear"]))
    /\ UNCHANGED <<isDrawing, currentColor, tickerColor, contextRef, canvas, pointsBuffer,
                   batchTimerRef, intervals, currentPathRef, strokesStoreRef, joined, posts, inflight,
                   strokePts, emitted, batches, downs, remotes, roomId, replays>>

\* Mutant of OnClear: the in-memory list is emptied too
OnClearEmptiesList ==
    /\ joined # "joining"
    /\ canvas' = {}
    /\ strokesStoreRef' = <<>>
    /\ bev' = BoardEvent("onClear", TRUE, None)
    /\ UNCHANGED <<isDrawing, currentColor, tickerColor, contextRef, pointsBuffer,
                   batchTimerRef, intervals, currentPathRef, joined, durable, posts,
                   inflight, strokePts, emitted, batches, downs, remotes, clearing, roomId,
                   replays>>

\* The 'clear' broadcast handler
OnClear ==
    /\ joined # "joining"
    /\ canvas' = {}
    /\ bev' = BoardEvent("onClear", TRUE, None)
    /\ UNCHANGED <<isDrawing, currentColor, tickerColor, contextRef, pointsBuffer,
                   batchTimerRef, intervals, currentPathRef, strokesStoreRef, joined, durable, posts,
                   inflight, strokePts, emitted, batches, downs, remotes, clearing, roomId,
                   replays>>

\* The route's roomId changes while the component stays mounted and no
\* request of the old room is pending: the clean-up of the channel effect
\* unsubscribes the old channel and the effect subscribes to the channel of
\* the new room, whose backend holds no stroke yet
RoomChanged ==
    /\ roomId < MaxRooms
    /\ joined = "loaded"
    /\ inflight = <<>>
    /\ clearing = 0
    /\ roomId' = roomId + 1
    /\ joined' = "joining"
    /\ durable' = <<>>
    /\ bev' = BoardEvent("roomChange", TRUE, None)
    /\ UNCHANGED <<isDrawing, currentColor, tickerColor, contextRef, canvas, pointsBuffer,
                   batchTimerRef, intervals, currentPathRef, strokesStoreRef, posts, inflight,
                   strokePts, emitted, batches, downs, remotes, clearing, replays>>

\* Mutant of SetupCanvas: the bitmap is not cleared
SetupCanvasKeepsBitmap ==
    RepaintAll([canvas |-> canvas, context |-> FreshContext(InitialColor)])

\* setupCanvas(): setting canvas.width clears the bitmap and resets the
\* context, strokeStyle is set to the currentColor of the first render, and
\* repaintAll() redraws the in-memory list
SetupCanvas ==
    RepaintAll([canvas |-> {}, context |-> FreshContext(InitialColor)])

\* The ResizeObserver or the window resize listener fires
Resize ==
    /\ canvas' = SetupCanvas.canvas
    /\ contextRef' = SetupCanvas.context
    /\ bev' = BoardEvent("resize", TRUE, None)
    /\ UNCHANGED <<isDrawing, currentColor, tickerColor, pointsBuffer, batchTimerRef, intervals,
                   currentPathRef, strokesStoreRef, joined, durable, posts, inflight,
                   strokePts, emitted, batches, downs, remotes, clearing,
                   roomId, replays>>

\* The component unmounts: the clean-up of the canvas effect drops the resize
\* listeners and clears the interval the ref holds (the ref is not reset), and
\* the clean-up of the channel effect unsubscribes
Unmount ==
    /\ joined # "closed"
    /\ joined' = "closed"
    /\ intervals' = IF batchTimerRef THEN intervals - 1 ELSE intervals
    /\ bev' = BoardEvent("unmount", TRUE, None)
    /\ UNCHANGED <<isDrawing, currentColor, tickerColor, contextRef, canvas, pointsBuffer,
                   batchTimerRef, currentPathRef, strokesStoreRef, durable, posts, inflight,
                   strokePts, emitted, batches, downs, remotes, clearing, roomId, replays>>

\* The whiteboard after mount: the canvas effect has run setupCanvas on an
\* empty list and the channel effect has called subscribe
BoardInit ==
    /\ isDrawing = FALSE
    /\ currentColor = InitialColor
    /\ tickerColor = InitialColor
    /\ contextRef = FreshContext(InitialColor)
    /\ canvas = {}
    /\ pointsBuffer = <<>>
    /\ batchTimerRef = FALSE
    /\ intervals = 0
    /\ currentPathRef = <<>>
    /\ strokesStoreRef = <<>>
    /\ joined = "joining"
    /\ durable = <<>>
    /\ posts = 0
    /\ inflight = <<>>
    /\ bev = BoardEvent("mount", FALSE, None)
    /\ strokePts = <<>>
    /\ emitted = <<>>
    /\ downs = 0
    /\ remotes = 0
    /\ batches = <<>>
    /\ clearing = 0
    /\ roomId = 1
    /\ replays = 0

\* Steps of the local drawing handlers, the ticker and the persist requests,
\* with no channel traffic
DrawNext ==
    \/ \E x \in Positions : downs < MaxStrokes /\ ~isDrawing /\ StartDrawing(x) /\ UNCHANGED <<playerVars, backendVars>>
    \/ \E x \in Positions : Draw(x) /\ UNCHANGED <<playerVars, backendVars>>
    \/ BatchTick /\ UNCHANGED <<playerVars, backendVars>>
    \/ StopDrawing /\ UNCHANGED <<playerVars, backendVars>>
    \/ \E i \in 1..MaxPosts, ok \in BOOLEAN : PostDone(i, ok) /\ UNCHANGED <<playerVars, backendVars>>

\* Steps of the local drawing handlers when the pointer has several buttons:
\* a pointer-down can come while a stroke is in progress.  The component can
\* unmount at any time; pointer events reach it only while it is mounted.
TickerNext ==
    \/ \E x \in Positions : joined # "closed" /\ downs < MaxStrokes /\ StartDrawing(x)
                               /\ UNCHANGED <<playerVars, backendVars>>
    \/ \E x \in Positions : joined # "closed" /\ Draw(x)
                               /\ UNCHANGED <<playerVars, backendVars>>
    \/ BatchTick /\ UNCHANGED <<playerVars, backendVars>>
    \/ joined # "closed" /\ StopDrawing /\ UNCHANGED <<playerVars, backendVars>>
    \/ \E i \in 1..MaxPosts, ok \in BOOLEAN : PostDone(i, ok) /\ UNCHANGED <<playerVars, backendVars>>
    \/ Unmount /\ UNCHANGED <<playerVars, backendVars>>

\* Steps of the whole whiteboard
BoardNext ==
    \/ \E x \in Positions : downs < MaxBoardStrokes /\ ~isDrawing /\ StartDrawing(x) /\ UNCHANGED <<playerVars, backendVars>>
    \/ \E x \in Positions : Draw(x) /\ UNCHANGED <<playerVars, backendVars>>
    \/ BatchTick /\ UNCHANGED <<playerVars, backendVars>>
    \/ StopDrawing /\ UNCHANGED <<playerVars, backendVars>>
    \/ \E i \in 1..MaxPosts, ok \in BOOLEAN : PostDone(i, ok) /\ UNCHANGED <<playerVars, backendVars>>
    \/ \E uid \in UserIds, points \in RemoteBatches :
          OnDrawBatch(uid, points, RemoteColor) /\ UNCHANGED <<playerVars, backendVars>>
    \/ \E stroke \in StoredStrokes : RemotePersist(stroke) /\ UNCHANGED <<playerVars, backendVars>>
    \/ Subscribed /\ UNCHANGED <<playerVars, backendVars>>
    \/ HistoryLoaded /\ UNCHANGED <<playerVars, backendVars>>
    \/ Resize /\ UNCHANGED <<playerVars, backendVars>>

\* Steps of a whiteboard that is drawn on, cleared and taken to another room
ClearNext ==
    \/ \E x \in Positions : downs < MaxBoardStrokes /\ ~isDrawing /\ StartDrawing(x)
                               /\ UNCHANGED <<playerVars, backendVars>>
    \/ \E x \in Positions : Draw(x) /\ UNCHANGED <<playerVars, backendVars>>
    \/ BatchTick /\ UNCHANGED <<playerVars, backendVars>>
    \/ StopDrawing /\ UNCHANGED <<playerVars, backendVars>>
    \/ \E i \in 1..MaxPosts, ok \in BOOLEAN : PostDone(i, ok) /\ UNCHANGED <<playerVars, backendVars>>
    \/ \E stroke \in StoredStrokes : RemotePersist(stroke) /\ UNCHANGED <<playerVars, backendVars>>
    \/ Subscribed /\ UNCHANGED <<playerVars, backendVars>>
    \/ HistoryLoaded /\ UNCHANGED <<playerVars, backendVars>>
    \/ Resize /\ UNCHANGED <<playerVars, backendVars>>
    \/ ClearCanvas /\ UNCHANGED <<playerVars, backendVars>>
    \/ \E ok \in BOOLEAN : ClearDone(ok) /\ UNCHANGED <<playerVars, backendVars>>
    \/ OnClear /\ UNCHANGED <<playerVars, backendVars>>
    \/ RoomChanged /\ UNCHANGED <<playerVars, backendVars>>

----------------------------------------------------------------------------
(* Whiteboard: replay of a stroke list *)

\* Sequences over S of length 0..n
SeqsUpTo(S, n) == UNION {[1..k -> S] : k \in 0..n}

\* The points a list entry can hold
EntryPoints == {Point(type, x) : type \in {"start", "move"}, x \in Positions}

\* The point lists of list entries: the path of a stroke, or a batch of one,
\* has a 'start' point at most in first place
EntryPointLists ==
    {ps \in SeqsUpTo(EntryPoints, MaxPoints) : \A i \in 2..Len(ps) : ps[i].type = "move"}

\* The { points, color } entries of a stroke list
ListEntries == [points : EntryPointLists, color : Colors]

\* clearRect over the whole canvas followed by repaintAll()
ClearAndRepaint ==
    /\ replays < MaxReplays
    /\ replays' = replays + 1
    /\ LET g == RepaintAll([canvas |-> {}, context |-> contextRef])
       IN  /\ canvas' = g.canvas
           /\ contextRef' = g.context
    /\ bev' = BoardEvent("repaint", TRUE, None)
    /\ UNCHANGED <<isDrawing, currentColor, tickerColor, pointsBuffer, batchTimerRef, intervals,
                   currentPathRef, strokesStoreRef, joined, durable, posts, inflight,
                   strokePts, emitted, batches, downs, remotes, clearing, roomId>>

\* A mounted whiteboard holding any stroke list, its context set to any
\* stroke color
ReplayBoardInit ==
    /\ isDrawing = FALSE
    /\ currentColor \in Colors
    /\ tickerColor = InitialColor
    /\ contextRef = FreshContext(currentColor)
    /\ canvas = {}
    /\ pointsBuffer = <<>>
    /\ batchTimerRef = FALSE
    /\ intervals = 0
    /\ currentPathRef = <<>>
    /\ strokesStoreRef \in SeqsUpTo(ListEntries, MaxListed)
    /\ joined = "loaded"
    /\ durable = <<>>
    /\ posts = 0
    /\ inflight = <<>>
    /\ bev = BoardEvent("mount", FALSE, None)
    /\ strokePts = <<>>
    /\ emitted = <<>>
    /\ downs = 0
    /\ remotes = 0
    /\ batches = <<>>
    /\ clearing = 0
    /\ roomId = 1
    /\ replays = 0

\* The point lists a draw_batch payload can carry: points of either type in
\* any order, the empty list included
BatchPointLists == SeqsUpTo(EntryPoints, MaxBatchPoints)

\* Steps of a whiteboard that receives one draw_batch event carrying any
\* point list, before, while or after a local stroke is drawn
StrokeNext ==
    \/ \E x \in Positions : downs < MaxBoardStrokes /\ ~isDrawing /\ StartDrawing(x)
                               /\ UNCHANGED <<playerVars, backendVars>>
    \/ \E x \in Positions : Draw(x) /\ UNCHANGED <<playerVars, backendVars>>
    \/ Subscribed /\ UNCHANGED <<playerVars, backendVars>>
    \/ HistoryLoaded /\ UNCHANGED <<playerVars, backendVars>>
    \/ \E uid \in UserIds, points \in BatchPointLists, color \in Colors :
          /\ remotes = 0
          /\ OnDrawBatch(uid, points, color)
          /\ UNCHANGED <<playerVars, backendVars>>

ReplayNext == ClearAndRepaint /\ UNCHANGED <<playerVars, backendVars>>

----------------------------------------------------------------------------
(* Backend: the stroke routes over the Stroke collection *)

\* What parseInt and Number give for a string that is no number (a value
\* that is no room id)
NaN == -1

\* Room ids as the whiteboard route carries them; 'default' is the value
\* useParams falls back to
RoomParams == {"1", "2", "default"}

\* parseInt(roomId)
ParseInt(s) == CASE s = "1" -> 1 [] s = "2" -> 2 [] OTHER -> NaN

\* The strokes and color fields of the POST bodies
Payloads ==
    {[strokes |-> <<Point("start", 1), Point("move", 2)>>, color |-> InitialColor],
     [strokes |-> <<Point("start", 2), Point("move", 1)>>, color |-> RemoteColor]}

\* What the last backend step was: the route, the room it addressed, the
\* response status and the rows of the response body
BackendEvent(op, room, status, result) ==
    [op |-> op, room |-> room, status |-> status, result |-> result]

\* Stroke.find({ room_id }): the documents of a room, in insertion order
Find(db, room) == SelectSeq(db, LAMBDA d : d.room_id = room)

\* .sort({ created_at: 1 }): the orders the sort can return.  Documents of
\* equal created_at come in any order
SortByCreatedAt(docs) ==
    {s \in {[i \in 1..Len(docs) |-> docs[p[i]]] : p \in Permutations(1..Len(docs))} :
        \A i \in 1..(Len(s) - 1) : s[i].created_at <= s[i + 1].created_at}

\* GET /strokes/:roomId (ok: the query was answered)
StrokesGet(param, ok) ==
    /\ LET room == ParseInt(param)
       IN  IF ok /\ room # NaN
             THEN \E result \in SortByCreatedAt(Find(strokesDb, room)) :
                      bk' = BackendEvent("get", room, 200, result)
             ELSE bk' = BackendEvent("get", room, 500, <<>>)
    /\ UNCHANGED <<strokesDb, serverNow, appended, roomsDb, playbackDb>>

\* Mutant of StrokesPost: the document is stored under room 1 whatever the body says
StrokesPostOneRoom(param, payload, ok) ==
    /\ Len(strokesDb) < MaxDocs
    /\ LET room == ParseInt(param)
           doc == [room_id |-> 1, strokes |-> payload.strokes, color |-> payload.color,
                   created_at |-> serverNow]
       IN  IF ok /\ room # NaN
             THEN /\ strokesDb' = Append(strokesDb, doc)
                  /\ appended' = [appended EXCEPT ![room] = Append(@, payload)]
                  /\ bk' = BackendEvent("post", room, 201, <<doc>>)
             ELSE /\ bk' = BackendEvent("post", room, 500, <<>>)
                  /\ UNCHANGED <<strokesDb, appended>>
    /\ UNCHANGED <<serverNow, roomsDb, playbackDb>>

\* POST /strokes with the body the whiteboard sends: room_id is
\* parseInt(roomId), which is sent as null and fails validation when it is NaN
\* (ok: the save succeeded); created_at defaults to Date.now()
StrokesPost(param, payload, ok) ==
    /\ Len(strokesDb) < MaxDocs
    /\ LET room == ParseInt(param)
           doc == [room_id |-> room, strokes |-> payload.strokes, color |-> payload.color,
                   created_at |-> serverNow]
       IN  IF ok /\ room # NaN
             THEN /\ strokesDb' = Append(strokesDb, doc)
                  /\ appended' = [appended EXCEPT ![room] = Append(@, payload)]
                  /\ bk' = BackendEvent("post", room, 201, <<doc>>)
             ELSE /\ bk' = BackendEvent("post", room, 500, <<>>)
                  /\ UNCHANGED <<strokesDb, appended>>
    /\ UNCHANGED <<serverNow, roomsDb, playbackDb>>

\* DELETE /strokes/:roomId (ok: the deleteMany succeeded)
StrokesDelete(param, ok) ==
    /\ LET room == ParseInt(param)
       IN  IF ok /\ room # NaN
             THEN /\ strokesDb' = SelectSeq(strokesDb, LAMBDA d : d.room_id # room)
                  /\ appended' = [appended EXCEPT ![room] = <<>>]
                  /\ bk' = BackendEvent("delete", room, 200, <<>>)
             ELSE /\ bk' = BackendEvent("delete", room, 500, <<>>)
                  /\ UNCHANGED <<strokesDb, appended>>
    /\ UNCHANGED <<serverNow, roomsDb, playbackDb>>

\* A millisecond passes on the server
ServerTick ==
    /\ serverNow < MaxServerTime
    /\ serverNow' = serverNow + 1
    /\ bk' = BackendEvent("tick", NaN, 0, <<>>)
    /\ UNCHANGED <<strokesDb, appended, roomsDb, playbackDb>>

\* Requests to the stroke routes
StrokesNext ==
    \/ \E param \in RoomParams, ok \in BOOLEAN :
          StrokesGet(param, ok) /\ UNCHANGED <<playerVars, boardVars>>
    \/ \E param \in RoomParams, payload \in Payloads, ok \in BOOLEAN :
          StrokesPost(param, payload, ok) /\ UNCHANGED <<playerVars, boardVars>>
    \/ \E param \in RoomParams, ok \in BOOLEAN :
          StrokesDelete(param, ok) /\ UNCHANGED <<playerVars, boardVars>>
    \/ ServerTick /\ UNCHANGED <<playerVars, boardVars>>

----------------------------------------------------------------------------
(* Backend: the room routes over the rooms and room_playback tables *)

\* Titles of request bodies; the empty one is rejected
Titles == {"", "algebra"}

\* video_url of request bodies: null or a string, which may be empty
VideoUrls == {None, Some(""), Some("a.mp4")}

\* Room ids as the path of PATCH /api/rooms/:id carries them
IdParams == {"1", "2", "x"}

\* Number(req.params.id)
ToNumber(s) == CASE s = "1" -> 1 [] s = "2" -> 2 [] OTHER -> NaN

\* Bodies of PATCH requests: keys lists the fields that are not undefined.
\* Of a room row only id and video_url are kept: title and subject are
\* written by the routes and read by none of them
PatchBodies ==
    {[keys |-> {}, video_url |-> None], [keys |-> {"title"}, video_url |-> None]}
    \cup {[keys |-> k, video_url |-> v] :
             k \in {{"video_url"}, {"video_url", "title"}}, v \in VideoUrls \ {Some("")}}

\* value || null, of a nullable string
OrNull(v) == IF v = Some("") THEN None ELSE v

\* The playbackRow both routes build: paused at 0
PlaybackRow(room, video_url) ==
    [room_id |-> room, video_url |-> video_url, is_playing |-> FALSE, playback_time |-> 0]

\* Mutant of Upsert: the row is inserted whether or not the room has one
UpsertInserts(table, row) == Append(table, row)

\* .upsert([row], { onConflict: 'room_id' }): the row replaces the one of its
\* room, or is inserted when the room has none
Upsert(table, row) ==
    IF \E i \in 1..Len(table) : table[i].room_id = row.room_id
      THEN [i \in 1..Len(table) |-> IF table[i].room_id = row.room_id THEN row ELSE table[i]]
      ELSE Append(table, row)

\* What the last request to the room routes was: the route, the room, the
\* response status, the room row answered, whether the request carried
\* video_url, and whether the playback upsert was made and succeeded
RoomsEvent(op, room, status, result, carried, upserted) ==
    [op |-> op, room |-> room, status |-> status, result |-> result,
     carried |-> carried, upserted |-> upserted]

\* POST /api/rooms by an authenticated user (failed: the database call that
\* fails, if any).  A failed upsert is only logged
RoomsPost(title, video_url, failed) ==
    /\ Len(roomsDb) < MaxRoomRows
    /\ IF title = ""
         THEN /\ bk' = RoomsEvent("roomsPost", NaN, 400, <<>>, FALSE, FALSE)
              /\ UNCHANGED <<roomsDb, playbackDb>>
       ELSE IF failed = "insert"
         THEN /\ bk' = RoomsEvent("roomsPost", NaN, 500, <<>>, FALSE, FALSE)
              /\ UNCHANGED <<roomsDb, playbackDb>>
       ELSE LET createdRoom == [id |-> Len(roomsDb) + 1, video_url |-> video_url]
            IN  /\ roomsDb' = Append(roomsDb, createdRoom)
                /\ playbackDb' =
                      IF failed # "upsert"
                        THEN Upsert(playbackDb,
                                    PlaybackRow(createdRoom.id, OrNull(createdRoom.video_url)))
                        ELSE playbackDb
                /\ bk' = RoomsEvent("roomsPost", createdRoom.id, 201, <<createdRoom>>,
                                    TRUE, failed # "upsert")
    /\ UNCHANGED <<strokesDb, serverNow, appended>>

\* Mutant of RoomsPatch: the playback row is reset by every update
RoomsPatchAlwaysResets(param, body, failed) ==
    /\ LET room == ToNumber(param)
           carried == "video_url" \in body.keys
       IN  IF room = NaN
             THEN /\ bk' = RoomsEvent("roomsPatch", room, 400, <<>>, carried, FALSE)
                  /\ UNCHANGED <<roomsDb, playbackDb>>
           ELSE IF failed = "select"
             THEN /\ bk' = RoomsEvent("roomsPatch", room, 500, <<>>, carried, FALSE)
                  /\ UNCHANGED <<roomsDb, playbackDb>>
           ELSE IF room \notin 1..Len(roomsDb)
             THEN /\ bk' = RoomsEvent("roomsPatch", room, 404, <<>>, carried, FALSE)
                  /\ UNCHANGED <<roomsDb, playbackDb>>
           ELSE IF body.keys = {}
             THEN /\ bk' = RoomsEvent("roomsPatch", room, 400, <<>>, carried, FALSE)
                  /\ UNCHANGED <<roomsDb, playbackDb>>
           ELSE IF failed = "update"
             THEN /\ bk' = RoomsEvent("roomsPatch", room, 500, <<>>, carried, FALSE)
                  /\ UNCHANGED <<roomsDb, playbackDb>>
           ELSE LET updatedRoom ==
                      [id |-> room,
                       video_url |-> IF carried THEN body.video_url
                                     ELSE roomsDb[room].video_url]
                IN  /\ roomsDb' = [roomsDb EXCEPT ![room] = updatedRoom]
                    /\ playbackDb' =
                          IF failed # "upsert"
                            THEN Upsert(playbackDb, PlaybackRow(room, updatedRoom.video_url))
                            ELSE playbackDb
                    /\ bk' = RoomsEvent("roomsPatch", room, 200, <<updatedRoom>>, carried,
                                        carried /\ failed # "upsert")
    /\ UNCHANGED <<strokesDb, serverNow, appended>>

\* PATCH /api/rooms/:id by an authenticated user (failed: the database call
\* that fails, if any).  The rows of the rooms table have the ids 1, 2, ... in
\* insertion order.  A failed upsert is only logged
RoomsPatch(param, body, failed) ==
    /\ LET room == ToNumber(param)
           carried == "video_url" \in body.keys
       IN  IF room = NaN
             THEN /\ bk' = RoomsEvent("roomsPatch", room, 400, <<>>, carried, FALSE)
                  /\ UNCHANGED <<roomsDb, playbackDb>>
           ELSE IF failed = "select"
             THEN /\ bk' = RoomsEvent("roomsPatch", room, 500, <<>>, carried, FALSE)
                  /\ UNCHANGED <<roomsDb, playbackDb>>
           ELSE IF room \notin 1..Len(roomsDb)
             THEN /\ bk' = RoomsEvent("roomsPatch", room, 404, <<>>, carried, FALSE)
                  /\ UNCHANGED <<roomsDb, playbackDb>>
           ELSE IF body.keys = {}
             THEN /\ bk' = RoomsEvent("roomsPatch", room, 400, <<>>, carried, FALSE)
                  /\ UNCHANGED <<roomsDb, playbackDb>>
           ELSE IF failed = "update"
             THEN /\ bk' = RoomsEvent("roomsPatch", room, 500, <<>>, carried, FALSE)
                  /\ UNCHANGED <<roomsDb, playbackDb>>
           ELSE LET updatedRoom ==
                      [id |-> room,
                       video_url |-> IF carried THEN body.video_url
                                     ELSE roomsDb[room].video_url]
                IN  /\ roomsDb' = [roomsDb EXCEPT ![room] = updatedRoom]
                    /\ playbackDb' =
                          IF carried /\ failed # "upsert"
                            THEN Upsert(playbackDb, PlaybackRow(room, body.video_url))
                            ELSE playbackDb
                    /\ bk' = RoomsEvent("roomsPatch", room, 200, <<updatedRoom>>, carried,
                                        carried /\ failed # "upsert")
    /\ UNCHANGED <<strokesDb, serverNow, appended>>

\* Positions participants publish
PublishedTimes == {42}

\* A participant publishes its play state and position to the playback
\* row of a room that has one
PlaybackWrite(room, playing, time) ==
    /\ \E i \in 1..Len(playbackDb) : playbackDb[i].room_id = room
    /\ playbackDb' =
          [i \in 1..Len(playbackDb) |->
              IF playbackDb[i].room_id = room
                THEN [playbackDb[i] EXCEPT !.is_playing = playing, !.playback_time = time]
                ELSE playbackDb[i]]
    /\ bk' = RoomsEvent("publish", room, 0, <<>>, FALSE, FALSE)
    /\ UNCHANGED <<strokesDb, serverNow, appended, roomsDb>>

\* Requests to the room routes, and participants' playback writes
RoomsNext ==
    \/ \E title \in Titles, video_url \in VideoUrls, failed \in {"none", "insert", "upsert"} :
          RoomsPost(title, video_url, failed)
          /\ UNCHANGED <<playerVars, boardVars>>
    \/ \E param \in IdParams, body \in PatchBodies,
             failed \in {"none", "select", "update", "upsert"} :
          RoomsPatch(param, body, failed)
          /\ UNCHANGED <<playerVars, boardVars>>
    \/ \E room \in 1..MaxRoomRows, playing \in BOOLEAN, time \in PublishedTimes :
          PlaybackWrite(room, playing, time) /\ UNCHANGED <<playerVars, boardVars>>

----------------------------------------------------------------------------
(* The component after mount: the useRef initial values *)

PlayerInit ==
    /\ now = StartNow
    /\ lastSentRef = 0
    /\ pendingSeekRef = None
    /\ controls = FALSE
    /\ isPlayingRef = FALSE
    /\ didInitRef = FALSE
    /\ suppressEchoRef = FALSE
    /\ timers = {}
    /\ playerExists = FALSE
    /\ playerTime = 0
    /\ cmds = <<>>
    /\ sent = <<>>
    /\ ev = Event("mount", "mount", NullRow, 0)
    /\ prevPeriodicAt = None
    /\ lastPeriodicAt = None
    /\ newest = None
    /\ hydrationTarget = None

\* The backend with empty collections and tables
BackendInit ==
    /\ strokesDb = <<>>
    /\ serverNow = 0
    /\ appended = [r \in {1, 2} |-> <<>>]
    /\ roomsDb = <<>>
    /\ playbackDb = <<>>
    /\ bk = BackendEvent("boot", NaN, 0, <<>>)

Init == PlayerInit /\ BoardInit /\ BackendInit

\* A whiteboard holding a stroke list, beside the player and the backend
ReplayInit == PlayerInit /\ ReplayBoardInit /\ BackendInit

\* Steps of the player; the whiteboard is a separate component
Next ==
    \/ \E row \in Rows \cup {NullRow} : RemoteUpdate(row) /\ UNCHANGED <<boardVars, backendVars>>
    \/ GuardTimeout /\ UNCHANGED <<boardVars, backendVars>>
    \/ \E t \in LocalTimes : HandleLocalTimeUpdate(t) /\ UNCHANGED <<boardVars, backendVars>>
    \/ \E b \in BOOLEAN, t \in LocalTimes : HandleLocalPlayPause(b, t) /\ UNCHANGED <<boardVars, backendVars>>
    \/ \E t \in LocalTimes : UserSeek(t) /\ UNCHANGED <<boardVars, backendVars>>
    \/ SetPlayerControls /\ UNCHANGED <<boardVars, backendVars>>
    \/ \E t \in SeekToTimes : SeekToTimeChanged(t) /\ UNCHANGED <<boardVars, backendVars>>
    \/ PlayerCreated /\ UNCHANGED <<boardVars, backendVars>>
    \/ \E d \in Deltas : Tick(d) /\ UNCHANGED <<boardVars, backendVars>>

\* Steps of the outbound handlers, with writes that may be rejected
WriteNext ==
    \/ \E t \in LocalTimes : HandleLocalTimeUpdate(t) /\ UNCHANGED <<boardVars, backendVars>>
    \/ \E b \in BOOLEAN, t \in LocalTimes : HandleLocalPlayPause(b, t) /\ UNCHANGED <<boardVars, backendVars>>
    \/ \E t \in LocalTimes : UserSeek(t) /\ UNCHANGED <<boardVars, backendVars>>
    \/ SendRejected /\ UNCHANGED <<boardVars, backendVars>>
    \/ PlayerCreated /\ UNCHANGED <<boardVars, backendVars>>
    \/ \E d \in Deltas : Tick(d) /\ UNCHANGED <<boardVars, backendVars>>

Spec == Init /\ [][Next]_vars

\* The outbound handlers alone, with rejected writes
SpecWrites == Init /\ [][WriteNext]_vars

\* Steps that open and end the echo guard: snapshots (handled until the
\* horizon of the run), the guard timers, the controls, the player and the clock
GuardNext ==
    \/ \E row \in Rows \cup {NullRow} :
          /\ now <= StartNow + Horizon
          /\ RemoteUpdate(row)
          /\ UNCHANGED <<boardVars, backendVars>>
    \/ GuardTimeout /\ UNCHANGED <<boardVars, backendVars>>
    \/ \E t \in LocalTimes : UserSeek(t) /\ UNCHANGED <<boardVars, backendVars>>
    \/ SetPlayerControls /\ UNCHANGED <<boardVars, backendVars>>
    \/ PlayerCreated /\ UNCHANGED <<boardVars, backendVars>>
    \/ \E d \in Deltas : TimePasses(d) /\ UNCHANGED <<boardVars, backendVars>>

\* The echo guard with time that passes and setTimeout callbacks that run
\* once their delay has passed
FairSpecGuard ==
    /\ Init
    /\ [][GuardNext]_vars
    /\ WF_vars(GuardTimeout /\ UNCHANGED <<boardVars, backendVars>>)
    /\ WF_vars(\E d \in Deltas : TimePasses(d) /\ UNCHANGED <<boardVars, backendVars>>)

\* The whiteboard alone
SpecBoard == Init /\ [][BoardNext]_vars

\* The drawing handlers of the whiteboard alone
SpecDraw == Init /\ [][DrawNext]_vars

\* The drawing handlers with pointer-downs at any time
SpecTicker == Init /\ [][TickerNext]_vars

\* The whiteboard drawn on, cleared and taken to another room
SpecClear == Init /\ [][ClearNext]_vars

\* The stroke routes alone
SpecStrokes == Init /\ [][StrokesNext]_vars

\* The room routes alone
SpecRooms == Init /\ [][RoomsNext]_vars

\* drawStroke on the point lists of received batches
SpecStroke == Init /\ [][StrokeNext]_vars

\* Replays of a stroke list
SpecReplay == ReplayInit /\ [][ReplayNext]_vars

\* The drawing handlers with the interval callback firing as long as the
\* interval is set (setInterval)
FairSpecDraw == SpecDraw /\ WF_vars(BatchTick /\ UNCHANGED <<playerVars, backendVars>>)

----------------------------------------------------------------------------
(* Properties *)

\* The last step handled a non-null snapshot
SnapshotHandled == ev.op = "remote" /\ ev.row # NullRow

\* The seekTo calls among the control calls cs
Seeks(cs) == SelectSeq(cs, LAMBDA c : c.call = "seekTo")

\* The setPlaying calls among the control calls cs
Plays(cs) == SelectSeq(cs, LAMBDA c : c.call = "setPlaying")

\* playback_time of a snapshot as a number (0 when it is missing)
TimeOf(row) == IF row.playback_time = None THEN 0 ELSE row.playback_time[1]

C2_HydrationAlwaysSeeks ==
    (SnapshotHandled /\ ev.branch = "hydrate") =>
        /\ Seeks(cmds) = <<[call |-> "seekTo", t |-> TimeOf(ev.row), play |-> FALSE]>>
        /\ \A i \in 1..Len(cmds) : ~(cmds[i].call = "setPlaying" /\ cmds[i].play)
        /\ controls => ~isPlayingRef

\* C2 amended: handling the first snapshot never calls setPlaying(true); with
\* the controls registered it calls seekTo(playback_time) then
\* setPlaying(false) and the play-state memory is false afterwards; with no
\* controls registered it makes no control call and stores playback_time in
\* the pending-seek slot.
C2_HydrationNeverPlays ==
    (SnapshotHandled /\ ev.branch = "hydrate") =>
        /\ \A i \in 1..Len(cmds) : ~(cmds[i].call = "setPlaying" /\ cmds[i].play)
        /\ controls =>
              /\ cmds = <<[call |-> "seekTo", t |-> TimeOf(ev.row), play |-> FALSE],
                          [call |-> "setPlaying", t |-> 0, play |-> FALSE]>>
              /\ ~isPlayingRef
        /\ ~controls =>
              /\ cmds = <<>>
              /\ pendingSeekRef = <<TimeOf(ev.row)>>

\* C2 witness: hydration from a snapshot that is playing, controls registered
C2_Witness ==
    /\ SnapshotHandled /\ ev.branch = "hydrate" /\ controls
    /\ ev.row.is_playing
    /\ Len(cmds) = 2

C5_SeekBeforePlayState ==
    (SnapshotHandled /\ ev.branch # "hydrate") =>
        \A i, j \in 1..Len(cmds) :
            (cmds[i].call = "seekTo" /\ cmds[j].call = "setPlaying") => i < j

\* C5 witness: a snapshot that changes both the position and the play state
C5_Witness ==
    /\ SnapshotHandled /\ ev.branch = "reconcile"
    /\ Len(cmds) = 2
    /\ cmds[1].call = "seekTo" /\ cmds[2].call = "setPlaying"
    /\ ~ev.row.is_playing

\* C6: last-write-wins by updated_at: a snapshot whose updated_at is older
\* than the greatest updated_at received so far changes neither the play-state
\* memory nor the reconciliation target (no seek, no new pending seek); any
\* other snapshot handled after hydration leaves the play-state memory equal
\* to its is_playing.
C6_LastWriteWins ==
    [][ (ev'.op = "remote" /\ ev'.row # NullRow /\ didInitRef) =>
          IF /\ newest # None
             /\ ev'.row.updated_at # None
             /\ ev'.row.updated_at[1] < newest[1]
          THEN /\ isPlayingRef' = isPlayingRef
               /\ Seeks(cmds') = <<>>
               /\ pendingSeekRef' = pendingSeekRef
          ELSE ~suppressEchoRef => isPlayingRef' = ev'.row.is_playing ]_vars

\* C7: two writes made by handleLocalTimeUpdate are at least
\* UPDATE_THROTTLE_MS apart, one call makes at most one write, and a call made
\* less than UPDATE_THROTTLE_MS after the last periodic write makes none.
C7_Throttle ==
    /\ (prevPeriodicAt # None) => lastPeriodicAt[1] - prevPeriodicAt[1] >= UPDATE_THROTTLE_MS
    /\ ev.op = "timeUpdate" =>
          /\ Len(sent) <= 1
          /\ (lastPeriodicAt # None /\ 0 < now - lastPeriodicAt[1]
                 /\ now - lastPeriodicAt[1] < UPDATE_THROTTLE_MS) => sent = <<>>
          /\ (sent # <<>>) => (lastPeriodicAt = <<now>> /\ sent[1].kind = "periodic")

\* C7 witness: two periodic writes exactly UPDATE_THROTTLE_MS apart, the
\* second made by the last step
C7_Witness ==
    /\ ev.op = "timeUpdate" /\ sent # <<>>
    /\ prevPeriodicAt # None
    /\ lastPeriodicAt[1] - prevPeriodicAt[1] = UPDATE_THROTTLE_MS

\* C8: every handleLocalPlayPause(isPlaying, t) call makes exactly one write
\* {is_playing: isPlaying, playback_time: t}, however recent the last write,
\* and the play-state memory equals isPlaying when the write is made (and after).
C8_PlayPauseBypassesThrottle ==
    ev.op = "playPause" =>
        /\ Len(sent) = 1
        /\ sent[1].is_playing = (ev.branch = "play")
        /\ sent[1].playback_time = ev.arg
        /\ sent[1].refAtSend = (ev.branch = "play")
        /\ isPlayingRef = (ev.branch = "play")

\* C8 witness: a play report made at the very time of the last periodic write,
\* changing the play-state memory from paused to playing
C8_Witness ==
    /\ ev.op = "playPause" /\ ev.branch = "play"
    /\ lastPeriodicAt = <<now>>
    /\ Len(sent) = 1 /\ sent[1].is_playing

\* C9: every handleLocalSeek(t) call makes exactly one write whatever the
\* throttle; the write carries playback_time t and the current play-state
\* memory; the call changes neither the play-state memory nor lastSentRef.
C9_SeekPreservesPlayState ==
    [][ ev'.op = "seek" =>
          /\ Len(sent') = 1
          /\ sent'[1].is_playing = isPlayingRef
          /\ sent'[1].playback_time = ev'.arg
          /\ isPlayingRef' = isPlayingRef
          /\ lastSentRef' = lastSentRef ]_vars

\* C9 witness: a seek reported while paused, at the time of the last periodic write
C9_Witness ==
    /\ ev.op = "seek"
    /\ ~isPlayingRef
    /\ lastSentRef = now
    /\ Len(sent) = 1 /\ ~sent[1].is_playing

\* C10: while the guard window opened by a hydration seek or a corrective
\* seek is active (flag set, timer not yet due), no periodic time report is
\* written.
C10_NoReportDuringGuard ==
    (suppressEchoRef /\ \E d \in timers : now < d) =>
        \A i \in 1..Len(sent) : sent[i].kind # "periodic"

----------------------------------------------------------------------------
(* Pending seek and expected position *)

\* Position a snapshot says the room is at when it is handled at time at:
\* playback_time, plus the age of the snapshot when it is playing
PositionAt(row, at) ==
    IF row.is_playing /\ row.updated_at # None
      THEN TimeOf(row) + (at - row.updated_at[1])
      ELSE TimeOf(row)

\* Target of a handled snapshot: playback_time at hydration, the expected
\* position afterwards
TargetOf(e, at) == IF e.branch = "hydrate" THEN TimeOf(e.row) ELSE PositionAt(e.row, at)

\* C11: a snapshot handled while no controls are registered issues no player
\* command and stores its target in the pending-seek slot; registering the
\* controls issues exactly one seekTo, to the stored target, and empties the
\* slot (no call when the slot is empty); no other step but an external seek
\* stored for lack of controls writes the slot.
C11_PendingSeek ==
    [][ /\ (ev'.op = "remote" /\ ev'.row # NullRow /\ ~controls) =>
              /\ cmds' = <<>>
              /\ pendingSeekRef' = <<TargetOf(ev', now)>>
        /\ ev'.op = "register" =>
              /\ pendingSeekRef' = <<>>
              /\ controls'
              /\ cmds' = IF pendingSeekRef = <<>> THEN <<>>
                         ELSE <<[call |-> "seekTo", t |-> pendingSeekRef[1], play |-> FALSE]>>
        /\ (ev'.op # "register" /\ (controls \/ ev'.op \notin {"remote", "externalSeek"})) =>
              pendingSeekRef' = pendingSeekRef ]_vars

\* C11 witness: the controls have just been registered and the one seekTo
\* issued goes to the expected position of a playing snapshot handled after
\* hydration, which had replaced the hydration target in the slot
C11_Witness ==
    /\ ev.op = "register"
    /\ didInitRef
    /\ pendingSeekRef = <<>>
    /\ cmds = <<[call |-> "seekTo", t |-> 103000, play |-> FALSE]>>
    /\ playerExists /\ playerTime = 103000

\* C12: once the player exists and the controls have been registered with it,
\* the position of a first snapshot that arrived before the player existed has
\* been applied to the player.
C12_HydrationTargetApplied ==
    (ev.op = "register" /\ playerExists /\ hydrationTarget # None) =>
        playerTime = hydrationTarget[1]

\* C13: the expected position of a snapshot handled by the reconciliation is
\* playback_time + (now - updated_at) when it is playing and exactly
\* playback_time when it is not; a drift above SEEK_THRESHOLD seeks to it, and
\* with no controls it is the stored pending seek.
C13_ExpectedPosition ==
    (SnapshotHandled /\ ev.branch = "reconcile") =>
        LET expected == IF ev.row.is_playing /\ ev.row.updated_at # None
                          THEN TimeOf(ev.row) + (now - ev.row.updated_at[1])
                          ELSE TimeOf(ev.row)
        IN  /\ ev.arg = expected
            /\ ~ev.row.is_playing => ev.arg = TimeOf(ev.row)
            /\ (controls /\ Abs(ev.local - expected) > SEEK_THRESHOLD) =>
                  Seeks(cmds) = <<[call |-> "seekTo", t |-> expected, play |-> FALSE]>>
            /\ ~controls => pendingSeekRef = <<expected>>

\* C13 witness: a snapshot at 100 s, playing, 3 s old, handled with the local
\* player at 101.2 s: the drift of 1.8 s seeks to 103 s
C13_Witness ==
    /\ SnapshotHandled /\ ev.branch = "reconcile" /\ controls
    /\ ev.row.playback_time = <<100000>> /\ ev.row.is_playing
    /\ ev.row.updated_at = <<now - 3000>>
    /\ ev.local = 101200
    /\ Seeks(cmds) = <<[call |-> "seekTo", t |-> 103000, play |-> FALSE]>>
    /\ playerTime = 103000

----------------------------------------------------------------------------
(* Whiteboard properties *)

\* C14: a draw_batch whose userId is the local id renders nothing and appends
\* nothing to the in-memory stroke list.
C14_SelfEchoIgnored ==
    [][ (bev'.op = "draw_batch" /\ bev'.batch[1].userId = LocalUser) =>
            /\ canvas' = canvas
            /\ contextRef' = contextRef
            /\ strokesStoreRef' = strokesStoreRef ]_vars

\* C14 witness: the participant's own draw_batch has been delivered while a
\* stroke of theirs is on the canvas and in the list
C14_Witness ==
    /\ bev.op = "draw_batch" /\ bev.batch[1].userId = LocalUser
    /\ canvas # {}
    /\ strokesStoreRef # <<>>

\* C15: the record a stopDrawing call sends to the store, and the entry it
\* appends to the in-memory list, have as points the pointer-down point
\* followed by every pointer-move point of the stroke, in event order.
C15_StrokePointOrder ==
    (bev.op = "stop" /\ bev.applied) =>
        /\ inflight[Len(inflight)].strokes = strokePts
        /\ strokesStoreRef[Len(strokesStoreRef)].points = strokePts

\* C16: there are never more append requests than strokes begun.
C16_OneRecordPerStroke == posts <= downs

C18_FlushBound ==
    /\ [](isDrawing => batchTimerRef)
    /\ [](Len(pointsBuffer) <= Len(strokePts) - Len(emitted))
    /\ ((pointsBuffer # <<>>) ~> (pointsBuffer = <<>>))

\* C18 witness: a tick has broadcast the buffered points of a stroke still in
\* progress
C18_Witness ==
    /\ bev.op = "tick" /\ bev.applied
    /\ isDrawing /\ batchTimerRef
    /\ pointsBuffer = <<>>
    /\ emitted = <<Point("start", 1), Point("move", 2)>>

\* C19: a live draw_batch is rendered and appended only once the stored
\* history has been fetched and replayed.
C19_HistoryBeforeLive ==
    (bev.op = "draw_batch" /\ bev.applied) => joined = "loaded"

\* The lines a list entry shows: one from each point to the 'move' point
\* after it
LinesOf(points) ==
    {Seg(points[i - 1].x, points[i].x) : i \in {j \in 2..Len(points) : points[j].type = "move"}}

\* The bitmap after the entries of a list are replayed in order, each in its
\* own color
RECURSIVE Replay(_, _)
Replay(bitmap, strokes) ==
    IF strokes = <<>> THEN bitmap
    ELSE Replay(Paint(bitmap, LinesOf(Head(strokes).points), Head(strokes).color),
                Tail(strokes))

\* C20: right after a resize the canvas shows the in-order replay, onto an
\* empty canvas, of the in-memory stroke list, each entry in its own color,
\* and the resize leaves the list unchanged.
C20_ResizeReconstructs ==
    [][ bev'.op = "resize" =>
            /\ strokesStoreRef' = strokesStoreRef
            /\ canvas' = Replay({}, strokesStoreRef) ]_vars

\* C20 witness: a resize has repainted a list holding a local stroke and a
\* remote batch of another color
C20_Witness ==
    /\ bev.op = "resize"
    /\ Len(strokesStoreRef) >= 2
    /\ \E e, f \in canvas : e[2] # f[2]

\* C21: replaying a stroke list onto a cleared canvas shows the same colored
\* segments the first time and every time after it (the in-order replay of
\* the list), and changes neither the list nor the stroke color of the
\* context.
C21_ReplayIdempotent ==
    [][ bev'.op = "repaint" =>
            /\ canvas' = Replay({}, strokesStoreRef)
            /\ (replays >= 1 => canvas' = canvas)
            /\ strokesStoreRef' = strokesStoreRef
            /\ contextRef'.strokeStyle = contextRef.strokeStyle ]_vars

\* C21 witness: a list of two entries of different colors, the second one
\* continuing a path, has been replayed twice
C21_Witness ==
    /\ replays = 2
    /\ Len(strokesStoreRef) = 2
    /\ strokesStoreRef[2].points # <<>>
    /\ strokesStoreRef[2].points[1].type = "move"
    /\ \E e, f \in canvas : e[2] # f[2]

\* C22: when the DELETE of clearCanvas has succeeded, the in-memory stroke
\* list of the clearing participant is empty, so that no later resize
\* repaints a stroke that existed before the clear.
C22_ClearEmptiesList ==
    (bev.op = "clearDone" /\ bev.applied) => strokesStoreRef = <<>>

\* C23: the 'clear' broadcast handler wipes the canvas and leaves the
\* in-memory stroke list, the batch buffer, the in-progress path and the
\* ticker as they were.
C23_RemoteClearFrame ==
    [][ bev'.op = "onClear" =>
            /\ canvas' = {}
            /\ strokesStoreRef' = strokesStoreRef
            /\ pointsBuffer' = pointsBuffer
            /\ currentPathRef' = currentPathRef
            /\ batchTimerRef' = batchTimerRef
            /\ isDrawing' = isDrawing ]_vars

\* C23 witness: a clear event arrived while a stroke was being drawn over a
\* loaded history: list, buffer, path and ticker are all in use
C23_Witness ==
    /\ bev.op = "onClear"
    /\ canvas = {}
    /\ strokesStoreRef # <<>>
    /\ pointsBuffer # <<>>
    /\ Len(currentPathRef) = 2
    /\ batchTimerRef

\* C24: clearCanvas wipes the canvas at once and sends nothing before the
\* DELETE is answered; when it is answered exactly one clear event is
\* broadcast, whether the DELETE succeeded or not; a failed DELETE leaves the
\* stored strokes in place, a successful one removes them; the in-memory
\* list is written by neither step.
C24_ClearProtocol ==
    [][ /\ bev'.op = "clear" =>
              /\ canvas' = {}
              /\ clearing' = clearing + 1
              /\ bev'.batch = None
              /\ durable' = durable
              /\ strokesStoreRef' = strokesStoreRef
        /\ bev'.op = "clearDone" =>
              /\ clearing > 0
              /\ clearing' = clearing - 1
              /\ bev'.batch = <<[userId |-> LocalUser, event |-> "clear"]>>
              /\ durable' = (IF bev'.applied THEN <<>> ELSE durable)
              /\ strokesStoreRef' = strokesStoreRef
              /\ canvas' = canvas ]_vars

\* C24 witness: the DELETE of a clearCanvas has failed with a stroke stored
\* and listed; the clear event went out all the same
C24_Witness ==
    /\ bev.op = "clearDone"
    /\ ~bev.applied
    /\ bev.batch # None
    /\ durable # <<>>
    /\ strokesStoreRef # <<>>
    /\ canvas = {}

\* C25: after the room id has changed the batch ticker is stopped and the
\* in-memory stroke list is empty, so that nothing of the old room is
\* replayed in the new one.
C25_TeardownEmptiesList ==
    roomId > 1 => (strokesStoreRef = <<>> /\ ~batchTimerRef)

\* C26: handling another participant's draw_batch paints the lines of its
\* points in the event's color, leaves strokeStyle as it was, and appends
\* exactly one { points, color } entry to the in-memory list.
C26_RemoteBatchReception ==
    [][ (bev'.op = "draw_batch" /\ bev'.applied) =>
            LET b == bev'.batch[1]
            IN  /\ canvas' = Paint(canvas, LinesOf(b.points), b.color)
                /\ contextRef'.strokeStyle = contextRef.strokeStyle
                /\ strokesStoreRef' =
                      Append(strokesStoreRef, [points |-> b.points, color |-> b.color]) ]_vars

\* C26 witness: a remote batch of another color than the local one has been
\* drawn and listed while a local stroke was in progress
C26_Witness ==
    /\ bev.op = "draw_batch"
    /\ bev.applied
    /\ isDrawing
    /\ bev.batch[1].color # contextRef.strokeStyle
    /\ \E e \in canvas : e[2] = bev.batch[1].color
    /\ strokesStoreRef[Len(strokesStoreRef)].points = bev.batch[1].points

\* The list a remote peer builds of the draw_batch events of one stroke,
\* delivered in the order sent: its handler appends one entry per event
PeerList(bs, color) == [i \in 1..Len(bs) |-> [points |-> bs[i], color |-> color]]

\* The segments on the canvas of a peer that replays such a list
PeerSegments(bs, color) ==
    {e[1] : e \in DrawAll([canvas |-> {}, context |-> FreshContext(InitialColor)],
                          PeerList(bs, color)).canvas}

\* C27: when a stroke has ended, the segments a remote peer gets by replaying
\* the entries it made of the stroke's draw_batch events are the segments
\* between the consecutive points of the author's stroke.
C27_RemoteReconstruction ==
    bev.op = "stop" => PeerSegments(batches, currentColor) = LinesOf(strokePts)

\* The playback rows of a room
PlaybackOf(table, room) == SelectSeq(table, LAMBDA r : r.room_id = room)

\* C28: after every successful room creation the room has a playback record
\* with is_playing = false and playback_time = 0.
C28_CreatedRoomHasPlayback ==
    (bk.op = "roomsPost" /\ bk.status = 201) =>
        /\ PlaybackOf(playbackDb, bk.room) # <<>>
        /\ ~PlaybackOf(playbackDb, bk.room)[1].is_playing
        /\ PlaybackOf(playbackDb, bk.room)[1].playback_time = 0

\* C28 as amended: after a successful room creation whose playback upsert
\* succeeded the room has a playback record with is_playing = false,
\* playback_time = 0 and the room's video_url (null for an empty one); when
\* the upsert failed the room is created all the same and the room_playback
\* table is as before.  No room ever has more than one playback record,
\* however often the upsert is repeated for it.
C28_PlaybackCreatedUnlessUpsertFails ==
    /\ [][ (bk'.op = "roomsPost" /\ bk'.status = 201) =>
              /\ Len(roomsDb') = Len(roomsDb) + 1
              /\ bk'.room = Len(roomsDb')
              /\ IF bk'.upserted
                   THEN PlaybackOf(playbackDb', bk'.room) =
                          <<[room_id |-> bk'.room,
                             video_url |-> IF roomsDb'[bk'.room].video_url = <<"">> THEN <<>>
                                           ELSE roomsDb'[bk'.room].video_url,
                             is_playing |-> FALSE, playback_time |-> 0]>>
                   ELSE playbackDb' = playbackDb ]_vars
    /\ [](\A room \in 1..MaxRoomRows : Len(PlaybackOf(playbackDb, room)) <= 1)

\* C28 witness: a second room with a video has been created with its
\* playback record while the first room, whose upsert failed, has none
C28_Witness ==
    /\ bk.op = "roomsPost"
    /\ bk.status = 201
    /\ bk.room = 2
    /\ PlaybackOf(playbackDb, 2) # <<>>
    /\ PlaybackOf(playbackDb, 2)[1].video_url # <<>>
    /\ PlaybackOf(playbackDb, 1) = <<>>

\* C29: a room update that carries video_url resets the room's playback
\* record to is_playing = false, playback_time = 0 with the new video_url; an
\* update that does not carry it leaves the record unchanged; no room
\* operation deletes a playback record.
C29_UpdateResetsPlayback ==
    [][ /\ (bk'.op = "roomsPatch" /\ bk'.status = 200) =>
              IF bk'.carried
                THEN PlaybackOf(playbackDb', bk'.room) =
                       <<[room_id |-> bk'.room, video_url |-> roomsDb'[bk'.room].video_url,
                          is_playing |-> FALSE, playback_time |-> 0]>>
                ELSE playbackDb' = playbackDb
        /\ \A room \in 1..MaxRoomRows :
              Len(PlaybackOf(playbackDb', room)) >= Len(PlaybackOf(playbackDb, room)) ]_vars

\* C29 as amended: a room update that carries video_url (null included) and
\* whose playback upsert succeeded resets the room's playback record to
\* is_playing = false, playback_time = 0 with the new video_url, creating the
\* record when the room had none; when the upsert failed the room has the
\* new video_url and the room_playback table is as before; an update that
\* does not carry video_url, and a request that is rejected, leave the table
\* as it was; no room operation deletes a playback record.
C29_UpdateResetsUnlessUpsertFails ==
    [][ /\ (bk'.op = "roomsPatch" /\ bk'.status = 200) =>
              /\ bk'.carried => roomsDb'[bk'.room].video_url = bk'.result[1].video_url
              /\ IF bk'.upserted
                   THEN /\ bk'.carried
                        /\ PlaybackOf(playbackDb', bk'.room) =
                              <<[room_id |-> bk'.room,
                                 video_url |-> roomsDb'[bk'.room].video_url,
                                 is_playing |-> FALSE, playback_time |-> 0]>>
                        /\ \A room \in 1..MaxRoomRows :
                              room # bk'.room =>
                                 PlaybackOf(playbackDb', room) = PlaybackOf(playbackDb, room)
                   ELSE playbackDb' = playbackDb
        /\ (bk'.op = "roomsPatch" /\ bk'.status # 200) => playbackDb' = playbackDb
        /\ \A room \in 1..MaxRoomRows :
              Len(PlaybackOf(playbackDb', room)) >= Len(PlaybackOf(playbackDb, room)) ]_vars

\* C29 witness: the video of a room whose record was playing at a later
\* position has been changed, and the record is back at 0, paused, with the
\* new video
C29_Witness ==
    /\ bk.op = "roomsPatch"
    /\ bk.status = 200
    /\ bk.upserted
    /\ bk.result[1].video_url = <<"a.mp4">>
    /\ PlaybackOf(playbackDb, bk.room) =
          <<[room_id |-> bk.room, video_url |-> <<"a.mp4">>, is_playing |-> FALSE,
             playback_time |-> 0]>>
    /\ \E room \in 1..MaxRoomRows :
          /\ PlaybackOf(playbackDb, room) # <<>>
          /\ PlaybackOf(playbackDb, room)[1].is_playing

\* The strokes and color of the rows of a response
Fields(rows) == [i \in 1..Len(rows) |-> [strokes |-> rows[i].strokes, color |-> rows[i].color]]

\* C30: a list request returns exactly the strokes appended to the room
\* since the room's last delete-all, in the order they were appended, each
\* with its points and color.
C30_ListReturnsAppended ==
    (bk.op = "get" /\ bk.status = 200) => Fields(bk.result) = appended[bk.room]

\* C30 as amended: a list request returns exactly the strokes appended to the
\* room since the room's last delete-all, each with its points and color,
\* ordered by ascending creation time; strokes created in different
\* milliseconds come in the order they were appended.  A delete-all or an
\* append addressed to another room, and a list request, leave the
\* documents of a room as they were.
C30_ListSortedByCreation ==
    /\ [](  (bk.op = "get" /\ bk.status = 200) =>
              LET rows == bk.result
                  mine == appended[bk.room]
              IN  /\ Len(rows) = Len(mine)
                  /\ \E p \in Permutations(1..Len(rows)) :
                        \A i \in 1..Len(rows) : Fields(rows)[i] = mine[p[i]]
                  /\ \A i \in 1..(Len(rows) - 1) : rows[i].created_at <= rows[i + 1].created_at
                  /\ (\A i, j \in 1..Len(rows) :
                         i # j => rows[i].created_at # rows[j].created_at)
                       => Fields(rows) = mine )
    /\ [][ \A r \in {1, 2} :
              (bk'.op = "get" \/ (bk'.op \in {"post", "delete"} /\ bk'.room # r))
                 => Find(strokesDb', r) = Find(strokesDb, r) ]_vars

\* C30 witness: a list request of a room answered two strokes of different
\* milliseconds while another room holds a stroke too
C30_Witness ==
    /\ bk.op = "get"
    /\ bk.status = 200
    /\ Len(bk.result) = 2
    /\ bk.result[1].created_at < bk.result[2].created_at
    /\ Len(strokesDb) = 3

----------------------------------------------------------------------------
(* Missing snapshots, failed writes and the echo guard *)

\* C31: handling a missing (null/undefined) snapshot issues no player command
\* and no write, and leaves the hydration flag, the pending-seek slot, the echo
\* guard and the play-state memory as they were; when no snapshot was handled
\* before it, the next real snapshot is handled as the first one (hydration).
C31_MissingSnapshotNoOp ==
    [][ /\ (ev'.op = "remote" /\ ev'.row = NullRow) =>
              /\ cmds' = <<>>
              /\ sent' = <<>>
              /\ didInitRef' = didInitRef
              /\ pendingSeekRef' = pendingSeekRef
              /\ suppressEchoRef' = suppressEchoRef
              /\ isPlayingRef' = isPlayingRef
              /\ timers' = timers
        /\ (ev.op = "remote" /\ ev.row = NullRow /\ ~didInitRef
               /\ ev'.op = "remote" /\ ev'.row # NullRow) =>
              (ev'.branch = "hydrate" /\ didInitRef') ]_vars

\* C31 witness: a real snapshot is hydrated from right after a missing one
\* was handled, the play-state memory having been set by a local play before
C31_Witness ==
    /\ ev.op = "remote" /\ ev.row = NullRow
    /\ ~didInitRef
    /\ isPlayingRef
    /\ controls

\* C38: a snapshot handled after hydration while the echo guard is set issues
\* no seekTo and no setPlaying and leaves the play-state memory, the
\* pending-seek slot, the guard and its timer as they were; the timer that ends
\* the guard only clears the flag: it issues no control call and changes neither
\* the play-state memory, the pending-seek slot nor the player's position.
C38_GuardDropsSnapshot ==
    [][ /\ (ev'.op = "remote" /\ ev'.row # NullRow /\ didInitRef /\ suppressEchoRef) =>
              /\ cmds' = <<>>
              /\ isPlayingRef' = isPlayingRef
              /\ pendingSeekRef' = pendingSeekRef
              /\ playerTime' = playerTime
              /\ suppressEchoRef'
              /\ timers' = timers
        /\ ev'.op = "timer" =>
              /\ cmds' = <<>>
              /\ isPlayingRef' = isPlayingRef
              /\ pendingSeekRef' = pendingSeekRef
              /\ playerTime' = playerTime
              /\ ~suppressEchoRef' ]_vars

\* C38 witness: a playing snapshot far from the player's position is dropped
\* during the guard while the play-state memory says paused
C38_Witness ==
    /\ ev.op = "remote" /\ ev.row # NullRow
    /\ didInitRef /\ suppressEchoRef /\ controls /\ playerExists
    /\ cmds = <<>>
    /\ ev.row.is_playing /\ ~isPlayingRef
    /\ Abs(ev.local - ev.arg) > SEEK_THRESHOLD
    /\ timers # {}

\* C35: a participant that has not handled its first snapshot (hydration flag
\* not set) writes no periodic time report: every write made by
\* handleLocalTimeUpdate for a constructed player is made after hydration.
C35_NoReportBeforeHydration ==
    (ev.op = "timeUpdate" /\ playerExists /\ sent # <<>>) => didInitRef

\* The play-state memory changes in a step only as a local play/pause action
\* or a reconciled snapshot sets it: a play/pause action sets it to its
\* argument, a snapshot reconciled after hydration without the guard sets it
\* to the snapshot's is_playing, and no step but these and hydration changes it.
PlayStateSetByActions ==
    /\ ev'.op = "playPause" => isPlayingRef' = (ev'.branch = "play")
    /\ (ev'.op = "remote" /\ ev'.row # NullRow /\ didInitRef /\ ~suppressEchoRef) =>
          isPlayingRef' = ev'.row.is_playing
    /\ (ev'.op \notin {"playPause", "remote"}) => isPlayingRef' = isPlayingRef
    /\ (ev'.op = "remote" /\ (ev'.row = NullRow \/ (didInitRef /\ suppressEchoRef))) =>
          isPlayingRef' = isPlayingRef

\* Every write made by handleLocalTimeUpdate carries the play-state memory,
\* which the call leaves as it was
PeriodicCarriesMemory ==
    (ev'.op = "timeUpdate" /\ sent' # <<>>) =>
        /\ Len(sent') = 1
        /\ sent'[1].is_playing = isPlayingRef
        /\ isPlayingRef' = isPlayingRef

C32_FailedWriteNotRetried ==
    [][ /\ ev'.op = "writeFailed" =>
              /\ sent' = <<>>
              /\ cmds' = <<>>
              /\ isPlayingRef' = isPlayingRef
              /\ lastSentRef' = lastSentRef
              /\ (ev.op = "playPause" => isPlayingRef' = (ev.branch = "play"))
              /\ (ev.op = "timeUpdate" => lastSentRef' = now)
        /\ sent' # <<>> =>
              /\ ev'.op \in {"timeUpdate", "playPause", "seek"}
              /\ Len(sent') = 1
              /\ (ev'.op = "timeUpdate" =>
                    now' - lastSentRef >= UPDATE_THROTTLE_MS)
        /\ (ev.op = "writeFailed" /\ ev.branch = "periodic" /\ ev'.op = "timeUpdate"
              /\ now' - lastSentRef < UPDATE_THROTTLE_MS) => sent' = <<>> ]_vars

\* C32 witness: a periodic report written UPDATE_THROTTLE_MS after the one
\* before it is rejected, the play-state memory saying playing
C32_Witness ==
    /\ ev.op = "writeFailed" /\ ev.branch = "periodic"
    /\ sent = <<>>
    /\ isPlayingRef
    /\ lastSentRef = now
    /\ prevPeriodicAt # None
    /\ lastPeriodicAt[1] - prevPeriodicAt[1] = UPDATE_THROTTLE_MS

\* C39: the echo guard is set exactly while one guard timer is waiting (no
\* second guard is opened while one is active), and whenever the guard is
\* set it is eventually cleared.
C39_GuardAlwaysEnds ==
    /\ [](suppressEchoRef <=> Cardinality(timers) = 1)
    /\ [](Cardinality(timers) <= 1)
    /\ (suppressEchoRef ~> ~suppressEchoRef)

\* C39 witness: the timer of a guard opened by a snapshot handled after
\* hydration (a corrective seek) has fired and cleared the guard
C39_Witness ==
    /\ ev.op = "timer"
    /\ \E opened \in StartNow..(StartNow + Horizon) :
          /\ (opened - StartNow) % 500 = 0
          /\ ev.arg = opened + SEEK_GUARD_MS
    /\ now >= ev.arg
    /\ ~suppressEchoRef /\ timers = {}
    /\ didInitRef /\ controls

----------------------------------------------------------------------------
(* Failed appends, drawStroke, concurrent drawing and the ticker *)

\* The stroke of every POST that is waiting for its answer is an entry of
\* the in-memory list
PostedStrokesListed ==
    \A i \in 1..Len(inflight) :
        \E k \in 1..Len(strokesStoreRef) :
            strokesStoreRef[k] = [points |-> inflight[i].strokes, color |-> inflight[i].color]

\* C33: when the POST of a completed stroke fails, the stroke (listed when
\* the POST was made) stays in the in-memory list, nothing is stored, no
\* other POST is made, the canvas is left as it is and the current path is
\* reset to empty; a resize afterwards redraws the whole list, the stroke
\* included.
C33_FailedAppendNotRolledBack ==
    /\ []PostedStrokesListed
    /\ [][ /\ (bev'.op = "postDone" /\ ~bev'.applied) =>
                 /\ strokesStoreRef' = strokesStoreRef
                 /\ durable' = durable
                 /\ posts' = posts
                 /\ Len(inflight') = Len(inflight) - 1
                 /\ canvas' = canvas
                 /\ currentPathRef' = <<>>
           /\ bev'.op = "resize" =>
                 \A k \in 1..Len(strokesStoreRef) :
                     \A sg \in LinesOf(strokesStoreRef[k].points) :
                         \E e \in canvas' : e[1] = sg ]_vars

\* C33 witness: the canvas was resized after the POST of a two-point stroke
\* failed: the stroke is listed and shown, and nothing is stored
C33_Witness ==
    /\ bev.op = "resize"
    /\ posts = 1 /\ inflight = <<>> /\ durable = <<>>
    /\ joined = "loaded"
    /\ Len(strokesStoreRef) = 1
    /\ Len(strokesStoreRef[1].points) = 2
    /\ \E e \in canvas : e[1] \in LinesOf(strokesStoreRef[1].points)
    /\ currentPathRef = <<>>

\* Index of the point that opens the last path of a point list: its last
\* later 'start' point, or its first point when there is none
LastStart(points) ==
    IF \E j \in 2..Len(points) : points[j].type = "start"
      THEN CHOOSE j \in 2..Len(points) :
             /\ points[j].type = "start"
             /\ \A k \in (j + 1)..Len(points) : points[k].type = "move"
      ELSE 1

\* C36: drawStroke(points, color) paints, in color, exactly one line for each
\* later point of type 'move', from the point before it in the list; the
\* first point opens a new path at its position whatever its type (no line
\* reaches it from the path the context held), a later 'start' point opens
\* a new path without a line, and an empty list changes nothing.  The pen
\* ends at the last point and strokeStyle is as before.
C36_DrawStrokeSemantics ==
    [][ (bev'.op = "draw_batch" /\ bev'.applied) =>
            LET points == bev'.batch[1].points
                color == bev'.batch[1].color
                n == Len(points)
                lines == {Seg(points[i - 1].x, points[i].x) :
                            i \in {j \in 2..n : points[j].type = "move"}}
            IN  IF n = 0
                  THEN canvas' = canvas /\ contextRef' = contextRef
                  ELSE /\ canvas' = {e \in canvas : e[1] \notin lines}
                                       \cup {<<sg, color>> : sg \in lines}
                       /\ contextRef'.pen = <<points[n].x>>
                       /\ contextRef'.sub = <<points[LastStart(points)].x>>
                       /\ contextRef'.path =
                             {Seg(points[i - 1].x, points[i].x) :
                                i \in (LastStart(points) + 1)..n}
                       /\ contextRef'.strokeStyle = contextRef.strokeStyle ]_vars

\* C36 witness: [start 1, move 2] was drawn in the remote color onto an
\* empty canvas and shows exactly the line 1-2 in that color
C36_Witness ==
    /\ bev.op = "draw_batch" /\ bev.applied
    /\ bev.batch[1].points = <<Point("start", 1), Point("move", 2)>>
    /\ bev.batch[1].color = RemoteColor
    /\ canvas = {<<Seg(1, 2), RemoteColor>>}

\* C37: every pointer move of a local stroke renders only lines between
\* consecutive points of that stroke, in the local color, also when a
\* draw_batch of another participant was handled since the point before: no
\* line joins a point of the batch to a point of the local stroke.
C37_LocalStrokeUndisturbed ==
    [][ bev'.op = "draw" =>
            \A e \in canvas' \ canvas :
                /\ e[1] \in LinesOf(strokePts')
                /\ e[2] = currentColor ]_vars

\* C40: between the handlers of the mounted component, the batch buffer is
\* empty whenever the batch ticker is not running and the ref holds the one
\* interval that is alive; at most one interval is alive at any time, none
\* after the unmount; a pointer-down while the ticker is running starts no
\* second interval.
C40_TickerBufferInvariant ==
    /\ [](joined # "closed" => (~batchTimerRef => pointsBuffer = <<>>))
    /\ [](joined # "closed" => (batchTimerRef <=> intervals = 1))
    /\ [](intervals <= 1)
    /\ [](joined = "closed" => intervals = 0)
    /\ [][ (bev'.op = "start" /\ batchTimerRef) =>
              (intervals' = intervals /\ batchTimerRef') ]_vars

\* C40 witness: a second pointer-down came while the stroke of the first was
\* in progress and its ticker running; one interval is alive and the buffer
\* holds both start points
C40_Witness ==
    /\ bev.op = "start"
    /\ downs = 2 /\ posts = 0
    /\ batchTimerRef /\ intervals = 1
    /\ Len(pointsBuffer) = 2
    /\ pointsBuffer[1].type = "start" /\ pointsBuffer[2].type = "start"

====
